---- MODULE Spec2Model ----
(***************************************************************************)
(* The LDAP message layer of midbel/ldap (client.go, ldap.go): one Client, *)
(* its transport, the directory server at the other end of the transport   *)
(* and the goroutines that call the Client's operations.                   *)
(*                                                                         *)
(* A call is followed through the points at which other goroutines can     *)
(* interleave with it:                                                     *)
(*   Call  the code of the operation before the mutex is taken             *)
(*   Send  c.mu.Lock(), c.msgid++, the encoding and conn.Write             *)
(*   Recv  one conn.Read and the decoding of what it returned              *)
(*   Post  the code of the operation after the mutex was released          *)
(* The transport delivers the server's envelopes as a byte stream; every   *)
(* envelope is two units long, so that a Read can end inside an envelope.  *)
(***************************************************************************)
EXTENDS Integers, Sequences, FiniteSets, TLC

\* ------------------------------------------------------------------ bounds
\* A behaviour follows one scenario: who calls, which operations, how many
\* calls go for the mutex and how many envelopes the server sends while one
\* of them holds it.
MaxCalls    == 3     \* "seq": one caller, every operation
MaxMsgs     == 1
StreamCalls == 1     \* "search": one caller, long response streams
StreamMsgs  == 3
ConcCalls   == 2     \* "conc": two callers
ConcMsgs    == 2
AgedCalls   == 2     \* "aged": a client that has been in use for long
AgedMsgs    == 1
AgedBack    == 2     \* distance of the aged client's counter from its wrap

Callers == {"a", "b"}
None    == "none"

\* ------------------------------------------------- constants of the program
MsgIdBits == 32      \* msgid uint32

ldapBindRequest      == 0
ldapBindResponse     == 1
ldapUnbindRequest    == 2
ldapSearchRequest    == 3
ldapSearchResEntry   == 4
ldapSearchResDone    == 5
ldapSearchResRef     == 19
ldapModifyRequest    == 6
ldapModifyResponse   == 7
ldapAddRequest       == 8
ldapAddResponse      == 9
ldapDelRequest       == 10
ldapDelResponse      == 11
ldapModDNRequest     == 12
ldapModDNResponse    == 13
ldapCmpRequest       == 14
ldapCmpResponse      == 15
ldapAbandonRequest   == 16
ldapExtendedRequest  == 23
ldapExtendedResponse == 24

oidStartTLS      == "1.3.6.1.4.1.1466.20037"
oidChangePasswd  == "1.3.6.1.4.1.4203.1.11.1"
oidWhoami        == "1.3.6.1.4.1.4203.1.11.3"
oidBeginTx       == "1.3.6.1.1.21.1"
oidEndTx         == "1.3.6.1.1.21.3"
noticeDisconnect == "1.3.6.1.4.1.1466.20036"
noticeAbortedTx  == "1.3.6.1.1.21.4"
CtrlTransactionOID == "1.3.6.1.1.21.2"
otherNotice      == "1.3.6.1.4.1.99999.1"

Success            == 0
CompareFalse       == 5
CompareTrue        == 6
Referral           == 10
SaslBindInProgress == 14
InvalidCredentials == 49
Unavailable        == 52

\* A uint32 is kept as two limbs of 16 bits, [hi, lo]: the integers of TLC
\* are 32-bit signed and do not hold 2^32 - 1.
Limb == 2 ^ (MsgIdBits \div 2)
U32(h, l) == [hi |-> h, lo |-> l]
Zero == U32(0, 0)
One  == U32(0, 1)
\* x + 1 in uint32 arithmetic: c.msgid++
Inc32(x) ==
  IF x.lo + 1 < Limb THEN U32(x.hi, x.lo + 1)
  ELSE IF x.hi + 1 < Limb THEN U32(x.hi + 1, 0)
  ELSE Zero
\* x - n for n a small number no larger than x
RECURSIVE Dec32(_, _)
Dec32(x, n) ==
  IF n = 0 THEN x
  ELSE Dec32(IF x.lo > 0 THEN U32(x.hi, x.lo - 1) ELSE U32(x.hi - 1, Limb - 1), n - 1)
Less32(x, y) == x.hi < y.hi \/ (x.hi = y.hi /\ x.lo < y.lo)
Max32 == U32(Limb - 1, Limb - 1)

VARIABLES
  msgid,     \* Client.msgid
  binded,    \* Client.binded
  tx,        \* Client.tx, a sequence of bytes
  conn,      \* Client.conn: [closed, tls]
  mu,        \* Client.mu: the caller holding it, or None
  net,       \* the network under conn: "up" or "down"
  wire,      \* the message IDs written to the transport, in order
  srvq,      \* requests the server has received and not finished answering
  inbox,     \* envelopes the server sent that the client has not read
  cut,       \* the first unit of Head(inbox) was already read
  inflight,  \* IDs of requests whose response is solicited and whose
             \* exchange has neither decoded its final response nor failed
  pc,        \* per caller: "idle", "wait", "read", "post", "ret"
  cur,       \* per caller: the call in progress, or the last one with its result
  ncalls,    \* calls that went for the mutex so far
  nmsgs,     \* envelopes the server sent during the exchange in progress
  scen,      \* the scenario of the behaviour
  input,     \* the argument of the function under study (NoInput: none)
  result     \* what the calls of the function under study returned so far

\* the variables of the studies of the functions that need no Client
pure == <<input, result>>

vars == <<msgid, binded, tx, conn, mu, net, wire, srvq, inbox, cut,
          inflight, pc, cur, ncalls, nmsgs, scen, pure>>

\* ------------------------------------------------------------- operations
ExecuteOps  == {"Bind", "Unbind", "Modify", "Add", "Delete", "Rename", "Move",
                "ModifyPassword"}
ExtendedOps == {"Whoami", "StartTLS", "Begin", "Commit", "Rollback"}
StubOps     == {"Abandon", "Cancel"}
Ops == ExecuteOps \cup ExtendedOps \cup StubOps \cup {"Search", "Compare"}

\* what the caller passes: "ok", a request that does not encode, a search
\* option that returns an error, a DN that Explode rejects
EncErrOps == {"Search", "Compare", "Add", "Unbind", "Whoami"}
Inputs(op) ==
  {"ok"} \cup (IF op \in EncErrOps THEN {"encerr"} ELSE {})
         \cup (IF op = "Search" THEN {"opterr"} ELSE {})
         \cup (IF op = "Move" THEN {"dnerr"} ELSE {})

\* the application tag of the request of each operation
OpApp(op) ==
  CASE op = "Bind"   -> ldapBindRequest
    [] op = "Unbind" -> ldapUnbindRequest
    [] op = "Search" -> ldapSearchRequest
    [] op = "Modify" -> ldapModifyRequest
    [] op = "Add"    -> ldapAddRequest
    [] op = "Delete" -> ldapDelRequest
    [] op \in {"Rename", "Move"} -> ldapModDNRequest
    [] op = "Compare" -> ldapCmpRequest
    [] OTHER -> ldapExtendedRequest

\* the OID of the extended request of each operation ("" when it has none)
OpOID(op) ==
  CASE op = "ModifyPassword" -> oidChangePasswd
    [] op = "Whoami"   -> oidWhoami
    [] op = "StartTLS" -> oidStartTLS
    [] op = "Begin"    -> oidBeginTx
    [] op \in {"Commit", "Rollback"} -> oidEndTx
    [] OTHER -> ""

\* Client.execute, the first switch: the form of the request identifier
IdentForm(app) ==
  IF app \in {ldapUnbindRequest, ldapDelRequest} THEN "primitive" ELSE "constructed"

\* the response tag is taken to be the request tag plus one
ResponseAppPlusOne(app) == app + 1

\* Client.execute, the second switch: the response tag handed to result
\* (0: result returns after the write)
ResponseApp(app) ==
  CASE app = ldapBindRequest   -> ldapBindResponse
    [] app = ldapAddRequest    -> ldapAddResponse
    [] app = ldapModifyRequest -> ldapModifyResponse
    [] app = ldapDelRequest    -> ldapDelResponse
    [] app = ldapModDNRequest  -> ldapModDNResponse
    [] OTHER -> 0

\* a modify-DN request is not taken for a part of the transaction
withTransactionNoModDN(app) ==
  Len(tx) > 0 /\ app \in {ldapAddRequest, ldapModifyRequest, ldapDelRequest}

\* Client.withTransaction
withTransaction(app) ==
  Len(tx) > 0 /\ app \in {ldapAddRequest, ldapModifyRequest, ldapDelRequest,
                          ldapModDNRequest}

\* a referral is taken for a failure
succeedNoReferral(code) ==
  code \in {Success, CompareTrue, CompareFalse, SaslBindInProgress}

\* Result.succeed
succeed(code) ==
  code \in {Success, CompareTrue, CompareFalse, Referral, SaslBindInProgress}

\* -------------------------------------------------------------- scenarios
ScenCallers == IF scen = "conc" THEN Callers ELSE {"a"}
ScenOps ==
  CASE scen = "search" -> {"Bind", "Search", "Unbind"}
    [] scen = "conc" -> {"Bind", "Unbind", "Delete", "ModifyPassword", "Begin",
                         "StartTLS"}
    [] OTHER -> Ops
ScenCalls ==
  CASE scen = "search" -> StreamCalls [] scen = "conc" -> ConcCalls
    [] scen = "aged" -> AgedCalls [] OTHER -> MaxCalls
ScenMsgs ==
  CASE scen = "search" -> StreamMsgs [] scen = "conc" -> ConcMsgs
    [] scen = "aged" -> AgedMsgs [] OTHER -> MaxMsgs

\* ---------------------------------------------------------------- errors
NoErr == [kind |-> "nil", code |-> 0, dn |-> "", diag |-> ""]
Err(k) == [kind |-> k, code |-> 0, dn |-> "", diag |-> ""]
\* a Result returned as the error: code, matched DN, diagnostic message
ResultErr(m) == [kind |-> "result", code |-> m.code, dn |-> m.dn, diag |-> m.diag]

\* -------------------------------------------------------------- envelopes
NoEnv == [id |-> Zero, tag |-> 0, code |-> 0, dn |-> "", diag |-> "",
          name |-> "", value |-> <<>>, entry |-> 0]
Env(i, t, c) == [NoEnv EXCEPT !.id = i, !.tag = t, !.code = c,
                 !.dn = IF succeed(c) THEN "" ELSE "dc=x",
                 !.diag = IF succeed(c) THEN "" ELSE "refused"]

ResultCodes == {Success, CompareFalse, CompareTrue, Referral,
                SaslBindInProgress, InvalidCredentials}
\* the result codes the server answers with in the scenario
ScenCodes == IF scen = "conc" THEN {Success, InvalidCredentials} ELSE ResultCodes

\* what a well-behaved server tags its answer to a request with
ServerTag(app) == app + 1

\* the envelopes the server may send for the request r = [id, app]; the
\* entry of a searchResEntry is named by the number of the envelope
Replies(r) ==
  IF r.app = ldapSearchRequest
  THEN { [Env(r.id, ldapSearchResEntry, Success) EXCEPT !.entry = nmsgs + 1] }
       \cup { Env(r.id, ldapSearchResRef, Success) }
       \cup { Env(r.id, ldapSearchResDone, c) : c \in ScenCodes }
       \cup { Env(r.id, ldapModifyResponse, Success) }
  ELSE IF r.app = ldapExtendedRequest
  THEN { Env(r.id, ldapExtendedResponse, c) : c \in ScenCodes }
       \cup { [Env(r.id, ldapExtendedResponse, Success) EXCEPT !.value = <<1>>] }
  ELSE { Env(r.id, ServerTag(r.app), c) : c \in ScenCodes }

\* unsolicited notifications: message ID 0, an extended response with a name
Notices ==
  { [Env(Zero, ldapExtendedResponse, Unavailable) EXCEPT !.name = noticeDisconnect],
    [Env(Zero, ldapExtendedResponse, Unavailable) EXCEPT !.name = noticeAbortedTx],
    [Env(Zero, ldapExtendedResponse, Unavailable) EXCEPT !.name = otherNotice],
    [Env(Zero, ldapExtendedResponse, Success) EXCEPT !.name = otherNotice] }
ScenNotices == IF scen = "conc" THEN {m \in Notices : m.name = noticeDisconnect}
               ELSE Notices

\* a message that ends the server's answer to the request r
Final(r, m) ==
  ~(r.app = ldapSearchRequest /\ m.tag \in {ldapSearchResEntry, ldapSearchResRef})

\* --------------------------------------------------------------- requests
\* createControl
createControl(oid, value, critical) ==
  [oid |-> oid, critical |-> critical, value |-> value]

NoReq == [id |-> Zero, app |-> 0, form |-> "", oid |-> "", payload |-> "",
          controls |-> <<>>, tls |-> FALSE]

\* the envelope execute, executeExtended, Search and Compare assemble
Request(op, id) ==
  [id |-> id, app |-> OpApp(op),
   form |-> IF op \in ExecuteOps THEN IdentForm(OpApp(op)) ELSE "constructed",
   oid |-> OpOID(op),
   payload |-> IF op = "Unbind" THEN "empty" ELSE "body",
   controls |-> IF op \in ExecuteOps /\ withTransaction(OpApp(op))
                THEN <<createControl(CtrlTransactionOID, tx, TRUE)>> ELSE <<>>,
   tls |-> conn.tls]

\* ------------------------------------------------------------------ calls
NoCall == [op |-> None, input |-> "ok", id |-> Zero, wrote |-> FALSE,
           req |-> NoReq, nread |-> 0,
           seen |-> <<>>, half |-> FALSE, es |-> <<>>, decoded |-> FALSE,
           res |-> NoEnv, err |-> NoErr, ok |-> FALSE, entries |-> <<>>,
           value |-> <<>>, bound0 |-> FALSE, ticket |-> 0]

\* ticket: the position of the call in the order in which calls are made
NewCall(op, in) == [NoCall EXCEPT !.op = op, !.input = in, !.bound0 = binded,
                                  !.ticket = ncalls + 1]

\* the operation has code to run after its exchange returned
NeedsPost(c) ==
  \/ c.op = "Unbind"
  \/ c.op \in {"Bind", "Begin", "Commit", "Rollback", "StartTLS"} /\ c.err = NoErr

\* the call of p has returned; cur[p] holds what it returned
Returned(p) == pc[p] = "ret"

\* the exchange of p returns with the call record c; the deferred Unlock runs
Finish(p, c) ==
  /\ cur' = [cur EXCEPT ![p] = c]
  /\ pc' = [pc EXCEPT ![p] = IF NeedsPost(c) THEN "post" ELSE "ret"]
  /\ mu' = None

\* conn.Write and conn.Read fail on a closed connection and on a dead network
TransportOK == ~conn.closed /\ net = "up"

\* c.conn.Close(): what the server had sent or had to send is lost
Close ==
  /\ conn' = [conn EXCEPT !.closed = TRUE]
  /\ srvq' = <<>> /\ inbox' = <<>> /\ cut' = FALSE

\* the Client in scenario s, with its counter at id after it wrote the IDs ids
Start(s, id, ids, b) ==
  /\ msgid = id
  /\ binded = b
  /\ tx = <<>>
  /\ conn = [closed |-> FALSE, tls |-> FALSE]
  /\ mu = None
  /\ net = "up"
  /\ wire = ids
  /\ srvq = <<>>
  /\ inbox = <<>>
  /\ cut = FALSE
  /\ inflight = {}
  /\ pc = [p \in Callers |-> "idle"]
  /\ cur = [p \in Callers |-> NoCall]
  /\ ncalls = 0
  /\ nmsgs = 0
  /\ scen = s

NoInput == [fn |-> None]
NoResult == [fn |-> None]
\* no function is under study
Unused == input = NoInput /\ result = NoResult

\* Open: the Client after construction
Init == Start("seq", Zero, <<>>, FALSE) /\ Unused

\* Bind does not look at the bound flag
LocalNoBound(op) ==
  \/ op \in StubOps
  \/ op = "Unbind" /\ ~binded
  \/ op = "StartTLS" /\ conn.tls

\* the operation returns nil without going for the mutex: Bind 166-168,
\* Unbind 187-189, StartTLS 275-277, Abandon, Cancel
Local(op) ==
  \/ op \in StubOps
  \/ op = "Bind" /\ binded
  \/ op = "Unbind" /\ ~binded
  \/ op = "StartTLS" /\ conn.tls

\* Begin does not look at the transaction identifier
RejectedNoBegin(op, in) ==
  \/ op \in {"Commit", "Rollback"} /\ Len(tx) = 0
  \/ op = "Move" /\ in = "dnerr"

\* the operation returns an error without going for the mutex: Begin 102-104,
\* Commit 114-116, Rollback 140-142, Move 300-303
Rejected(op, in) ==
  \/ op = "Begin" /\ Len(tx) > 0
  \/ op \in {"Commit", "Rollback"} /\ Len(tx) = 0
  \/ op = "Move" /\ in = "dnerr"

\* the code of an operation up to the point where it takes the mutex:
\* Bind 166-168, Unbind 186-189, Begin 102-104, Commit 114-116,
\* Rollback 140-142, StartTLS 275-277, Move 300-303, Abandon, Cancel
Call(p, op, in) ==
  /\ pc[p] = "idle"
  /\ p \in ScenCallers /\ op \in ScenOps
  /\ LET c == NewCall(op, in)
         local == Local(op)
         reject == Rejected(op, in)
     IN /\ cur' = [cur EXCEPT ![p] =
                     IF reject THEN [c EXCEPT !.err = Err("local")] ELSE c]
        /\ pc' = [pc EXCEPT ![p] = IF local \/ reject THEN "ret" ELSE "wait"]
        /\ IF op = "Unbind" /\ ~binded THEN Close
           ELSE UNCHANGED <<conn, srvq, inbox, cut>>
        /\ (local \/ reject \/ ncalls < ScenCalls)
        /\ ncalls' = IF local \/ reject THEN ncalls ELSE ncalls + 1
  /\ UNCHANGED <<msgid, binded, tx, mu, net, wire, inflight, nmsgs, scen, pure>>

\* what the encoder holds is written although the encoding failed
SendUnencoded(p) ==
  /\ pc[p] = "wait"
  /\ mu = None
  /\ LET c   == cur[p]
         id  == Inc32(msgid)
         req == Request(c.op, id)
         c1  == [c EXCEPT !.id = id]
         noread == c.op \in ExecuteOps /\ ResponseApp(req.app) = 0
     IN /\ msgid' = id
        /\ IF c.input = "opterr"
           THEN /\ Finish(p, [c1 EXCEPT !.err = Err("option")])
                /\ UNCHANGED <<wire, srvq, inflight>>
           ELSE IF c.input = "encerr"
           THEN /\ Finish(p, [c1 EXCEPT !.err = Err("encode")])
                /\ wire' = Append(wire, id)
                /\ UNCHANGED <<srvq, inflight>>
           ELSE IF ~TransportOK
           THEN /\ Finish(p, [c1 EXCEPT !.err = Err("io")])
                /\ UNCHANGED <<wire, srvq, inflight>>
           ELSE /\ wire' = Append(wire, id)
                /\ srvq' = IF req.app = ldapUnbindRequest THEN srvq
                           ELSE Append(srvq, [id |-> id, app |-> req.app])
                /\ inflight' = IF req.app = ldapUnbindRequest THEN inflight
                               ELSE inflight \cup {id}
                /\ IF noread
                   THEN Finish(p, [c1 EXCEPT !.wrote = TRUE, !.req = req])
                   ELSE /\ cur' = [cur EXCEPT ![p] = [c1 EXCEPT !.wrote = TRUE, !.req = req]]
                        /\ pc' = [pc EXCEPT ![p] = "read"]
                        /\ mu' = p
  /\ UNCHANGED <<binded, tx, conn, net, inbox, cut, ncalls, nmsgs, scen, pure>>

\* c.mu.Lock(), c.msgid++, the encoding of the envelope and conn.Write;
\* execute with a response tag of 0 returns here
Send(p) ==
  /\ pc[p] = "wait"
  /\ mu = None
  /\ LET c   == cur[p]
         id  == Inc32(msgid)
         req == Request(c.op, id)
         c1  == [c EXCEPT !.id = id]
         noread == c.op \in ExecuteOps /\ ResponseApp(req.app) = 0
     IN /\ msgid' = id
        /\ IF c.input = "opterr"
           THEN /\ Finish(p, [c1 EXCEPT !.err = Err("option")])
                /\ UNCHANGED <<wire, srvq, inflight>>
           ELSE IF c.input = "encerr"
           THEN /\ Finish(p, [c1 EXCEPT !.err = Err("encode")])
                /\ UNCHANGED <<wire, srvq, inflight>>
           ELSE IF ~TransportOK
           THEN /\ Finish(p, [c1 EXCEPT !.err = Err("io")])
                /\ UNCHANGED <<wire, srvq, inflight>>
           ELSE /\ wire' = Append(wire, id)
                /\ srvq' = IF req.app = ldapUnbindRequest THEN srvq
                           ELSE Append(srvq, [id |-> id, app |-> req.app])
                /\ inflight' = IF req.app = ldapUnbindRequest THEN inflight
                               ELSE inflight \cup {id}
                /\ IF noread
                   THEN Finish(p, [c1 EXCEPT !.wrote = TRUE, !.req = req])
                   ELSE /\ cur' = [cur EXCEPT ![p] = [c1 EXCEPT !.wrote = TRUE, !.req = req]]
                        /\ pc' = [pc EXCEPT ![p] = "read"]
                        /\ mu' = p
  /\ UNCHANGED <<binded, tx, conn, net, inbox, cut, ncalls, nmsgs, scen, pure>>

\* ---------------------------------------------------------------- decoding
\* units of the stream that a Read can return
Avail == 2 * Len(inbox) - (IF cut THEN 1 ELSE 0)

\* what the body of an envelope holds: an LDAPResult (unmarshalResult reads
\* code, DN, message), an entry or a referral
BodyKind(m) ==
  IF m.tag = ldapSearchResEntry THEN "entry"
  ELSE IF m.tag = ldapSearchResRef THEN "ref"
  ELSE "result"

\* rawMessage.Decode into a val of kind "result" or "entry": the error it
\* returns (NoErr: val was filled from m)
rawDecode(m, val) ==
  IF m.id = Zero
  THEN IF BodyKind(m) # "result" THEN Err("ber")
       ELSE IF m.name = noticeDisconnect
            THEN [Err("unsolicited") EXCEPT !.diag = "disconnection"]
       ELSE IF m.name = noticeAbortedTx
            THEN [Err("unsolicited") EXCEPT !.diag = "transaction aborted"]
       ELSE ResultErr(m)
  ELSE IF BodyKind(m) = val THEN NoErr ELSE Err("ber")

\* Client.result and Client.extendedResult after conn.Read returned the
\* envelope m whole: the call record they return with
resultOf(c, m) ==
  LET e  == rawDecode(m, "result")
      c1 == [c EXCEPT !.seen = Append(c.seen, m)]
  IN IF e # NoErr THEN [c1 EXCEPT !.err = e]
     ELSE LET c2 == [c1 EXCEPT !.decoded = TRUE, !.res = m,
                               !.err = IF succeed(m.code) THEN NoErr ELSE ResultErr(m)]
          IN IF c.op = "Compare" THEN [c2 EXCEPT !.ok = (m.code = CompareTrue)]
             ELSE IF c.op \in {"Whoami", "Begin"} /\ succeed(m.code)
                  THEN [c2 EXCEPT !.value = m.value]
             ELSE c2

\* a searchResRef is taken for an unexpected message
searchStepNoRef(m, c) ==
  LET c1 == [c EXCEPT !.seen = Append(c.seen, m)]
  IN IF m.tag = ldapSearchResDone
     THEN IF rawDecode(m, "result") # NoErr
          THEN [st |-> "err", c |-> [c1 EXCEPT !.err = rawDecode(m, "result")]]
          ELSE [st |-> "done", c |-> [c1 EXCEPT !.decoded = TRUE, !.res = m]]
     ELSE IF m.tag = ldapSearchResEntry
     THEN IF rawDecode(m, "entry") # NoErr
          THEN [st |-> "err", c |-> [c1 EXCEPT !.err = rawDecode(m, "entry")]]
          ELSE [st |-> "next", c |-> [c1 EXCEPT !.es = Append(c.es, m.entry)]]
     ELSE [st |-> "err", c |-> [c1 EXCEPT !.err = Err("proto")]]

\* the switch of Client.executeSearch on the tag of the decoded envelope m:
\* st is "next" (go on), "done" or "err"
searchStep(m, c) ==
  LET c1 == [c EXCEPT !.seen = Append(c.seen, m)]
  IN IF m.tag = ldapSearchResDone
     THEN IF rawDecode(m, "result") # NoErr
          THEN [st |-> "err", c |-> [c1 EXCEPT !.err = rawDecode(m, "result")]]
          ELSE [st |-> "done", c |-> [c1 EXCEPT !.decoded = TRUE, !.res = m]]
     ELSE IF m.tag = ldapSearchResEntry
     THEN IF rawDecode(m, "entry") # NoErr
          THEN [st |-> "err", c |-> [c1 EXCEPT !.err = rawDecode(m, "entry")]]
          ELSE [st |-> "next", c |-> [c1 EXCEPT !.es = Append(c.es, m.entry)]]
     ELSE IF m.tag = ldapSearchResRef
     THEN [st |-> "next", c |-> c1]
     ELSE [st |-> "err", c |-> [c1 EXCEPT !.err = Err("proto")]]

\* the inner loop of Client.executeSearch over the envelopes msgs[i..] that
\* the decoder holds whole: st is "more" (all consumed, not done), "done" or "err"
RECURSIVE searchLoop(_, _, _)
searchLoop(msgs, i, c) ==
  IF i > Len(msgs) THEN [st |-> "more", c |-> c]
  ELSE LET r == searchStep(msgs[i], c)
       IN IF r.st = "next" THEN searchLoop(msgs, i + 1, r.c) ELSE r

\* the entries received are returned with the error
searchReturnPartial(c) ==
  IF ~succeed(c.res.code) THEN [c EXCEPT !.err = ResultErr(c.res), !.entries = c.es]
  ELSE [c EXCEPT !.entries = c.es]

\* the tail of Client.executeSearch: the result of the search that is done
searchReturn(c) ==
  IF ~succeed(c.res.code) THEN [c EXCEPT !.err = ResultErr(c.res)]
  ELSE [c EXCEPT !.entries = c.es]

\* one conn.Read that returns k units, and what result, extendedResult or
\* executeSearch do with them
Recv(p, k) ==
  /\ pc[p] = "read"
  /\ TransportOK
  /\ k \in 1..Avail
  /\ LET c    == [cur[p] EXCEPT !.nread = @ + 1]
         off  == (IF cut THEN 1 ELSE 0) + k
         n    == off \div 2
         lost == cut /\ ~c.half
         rest == SubSeq(inbox, n + 1, Len(inbox))
         \* the exchange ends; the units that follow a unit read and dropped
         \* are no envelope any more
         end(c1) == /\ Finish(p, c1)
                    /\ inflight' = inflight \ {c.id}
                    /\ nmsgs' = 0
                    /\ inbox' = IF off % 2 = 1 THEN <<NoEnv>> \o Tail(rest) ELSE rest
     IN /\ cut' = (off % 2 = 1)
        /\ IF lost
           THEN end([c EXCEPT !.err = Err("ber")])
           ELSE IF c.op = "Search"
           THEN LET r == searchLoop(SubSeq(inbox, 1, n), 1, c)
                IN IF r.st = "more"
                   THEN /\ cur' = [cur EXCEPT ![p] = [r.c EXCEPT !.half = (off % 2 = 1)]]
                        /\ inbox' = rest
                        /\ UNCHANGED <<pc, mu, inflight, nmsgs>>
                   ELSE IF r.st = "done" THEN end(searchReturn(r.c))
                   ELSE end(r.c)
           ELSE IF n = 0
           THEN end([c EXCEPT !.err = Err("ber")])
           ELSE end(resultOf(c, inbox[1]))
  /\ UNCHANGED <<msgid, binded, tx, conn, net, wire, srvq, ncalls, scen, pure>>

\* conn.Read returns an error
RecvFail(p) ==
  /\ pc[p] = "read"
  /\ ~TransportOK
  /\ Finish(p, [cur[p] EXCEPT !.err = Err("io")])
  /\ inflight' = inflight \ {cur[p].id}
  /\ nmsgs' = 0
  /\ UNCHANGED <<msgid, binded, tx, conn, net, wire, srvq, inbox, cut,
                 ncalls, scen, pure>>

\* the transport is left as it was after StartTLS
PostNoWrap(p) ==
  /\ pc[p] = "post"
  /\ pc' = [pc EXCEPT ![p] = "ret"]
  /\ LET c == cur[p]
     IN /\ binded' = IF c.op = "Bind" THEN TRUE ELSE binded
        /\ tx' = IF c.op = "Begin" THEN c.res.value
                 ELSE IF c.op \in {"Commit", "Rollback"} THEN <<>>
                 ELSE tx
        /\ IF c.op = "Unbind" THEN Close
           ELSE UNCHANGED <<conn, srvq, inbox, cut>>
  /\ UNCHANGED <<msgid, mu, net, wire, inflight, cur, ncalls, nmsgs, scen, pure>>

\* the code of an operation after its exchange returned: Bind 179-181,
\* Unbind 186 (the deferred Close), Begin 107-109, Commit 133-135,
\* Rollback 159-161, StartTLS 280-282
Post(p) ==
  /\ pc[p] = "post"
  /\ pc' = [pc EXCEPT ![p] = "ret"]
  /\ LET c == cur[p]
     IN /\ binded' = IF c.op = "Bind" THEN TRUE ELSE binded
        /\ tx' = IF c.op = "Begin" THEN c.res.value
                 ELSE IF c.op \in {"Commit", "Rollback"} THEN <<>>
                 ELSE tx
        /\ IF c.op = "Unbind" THEN Close
           ELSE /\ conn' = IF c.op = "StartTLS" THEN [conn EXCEPT !.tls = TRUE]
                           ELSE conn
                /\ UNCHANGED <<srvq, inbox, cut>>
  /\ UNCHANGED <<msgid, mu, net, wire, inflight, cur, ncalls, nmsgs, scen, pure>>

\* the caller takes the result of its call and is free to call again
Return(p) ==
  /\ pc[p] = "ret"
  /\ pc' = [pc EXCEPT ![p] = "idle"]
  /\ cur' = [cur EXCEPT ![p] = NoCall]
  /\ UNCHANGED <<msgid, binded, tx, conn, mu, net, wire, srvq, inbox, cut,
                 inflight, ncalls, nmsgs, scen, pure>>

\* ------------------------------------------------------------ environment
\* The client observes the server and the network only in conn.Write and
\* conn.Read: an envelope sent, or a failure of the network, while no caller is
\* at one of them is observed exactly as if it happened once a caller is.
Reading == \E p \in Callers : pc[p] = "read"
AtIO    == \E p \in Callers : pc[p] \in {"wait", "read"}

\* the server answers the oldest request it has not finished answering
ServerSend(m) ==
  /\ TransportOK /\ Reading
  /\ nmsgs < ScenMsgs
  /\ srvq # <<>>
  /\ m \in Replies(Head(srvq))
  /\ inbox' = Append(inbox, m)
  /\ srvq' = IF Final(Head(srvq), m) THEN Tail(srvq) ELSE srvq
  /\ nmsgs' = nmsgs + 1
  /\ UNCHANGED <<msgid, binded, tx, conn, mu, net, wire, cut, inflight,
                 pc, cur, ncalls, scen, pure>>

\* the server sends an unsolicited notification
ServerNotice(m) ==
  /\ TransportOK /\ Reading
  /\ nmsgs < ScenMsgs
  /\ m \in ScenNotices
  /\ inbox' = Append(inbox, m)
  /\ nmsgs' = nmsgs + 1
  /\ UNCHANGED <<msgid, binded, tx, conn, mu, net, wire, srvq, cut,
                 inflight, pc, cur, ncalls, scen, pure>>

\* the network fails: from now on every Write and Read returns an error, and
\* what the server had sent or had to send is lost
NetDown ==
  /\ net = "up" /\ AtIO
  /\ net' = "down"
  /\ srvq' = <<>> /\ inbox' = <<>> /\ cut' = FALSE
  /\ UNCHANGED <<msgid, binded, tx, conn, mu, wire, inflight, pc, cur, ncalls,
                 nmsgs, scen, pure>>

Next ==
  \/ \E p \in Callers, op \in Ops : \E in \in Inputs(op) : Call(p, op, in)
  \/ \E p \in Callers : Send(p)
  \/ \E p \in Callers : \E k \in 1..Avail : Recv(p, k)
  \/ \E p \in Callers : RecvFail(p)
  \/ \E p \in Callers : Post(p)
  \/ \E p \in Callers : Return(p)
  \/ \E m \in Notices : ServerNotice(m)
  \/ \E m \in UNION {Replies(r) : r \in {srvq[i] : i \in DOMAIN srvq}} : ServerSend(m)
  \/ NetDown

Spec == Init /\ [][Next]_vars

\* one caller and long response streams
InitSearch == Start("search", Zero, <<>>, FALSE) /\ Unused
SpecSearch == InitSearch /\ [][Next]_vars

\* two concurrent callers
InitConc == Start("conc", Zero, <<>>, FALSE) /\ Unused
SpecConc == InitConc /\ [][Next]_vars

\* A client that is bound and has been in use for so long that its counter is
\* AgedBack increments away from 0; of the message IDs it wrote, wire keeps
\* the first and the latest.
AgedId == Dec32(Max32, AgedBack - 1)
InitAged == Start("aged", AgedId, <<One, AgedId>>, TRUE) /\ Unused
SpecAged == InitAged /\ [][Next]_vars

\* ================================================================ filter.go
\* Strings are sequences of characters; every character of the study is
\* ASCII, so that a rune is a byte and utf8.ValidString holds. No filter
\* string of the study has a ':' where an operator is read, so the
\* extensible-match branch of parseAttribute is not taken.
MaxFrags == 4        \* fragments of a value, separated by '*'
MaxNest  == 3        \* negations around an item

tagFilterAnd        == 0
tagFilterOr         == 1
tagFilterNot        == 2
tagFilterEquality   == 3
tagFilterSubstrings == 4
tagFilterGreaterEq  == 5
tagFilterLesserEq   == 6
tagFilterPresent    == 7
tagFilterApprox     == 8
tagFilterExtensible == 9

lparen    == "("
rparen    == ")"
ampersand == "&"
pipe      == "|"
bang      == "!"
star      == "*"
equal     == "="
langle    == "<"
rangle    == ">"
tilde     == "~"
colon     == ":"
backslash == "\\"
null      == "NUL"         \* the rune 0 that Next returns with io.EOF
RuneError == "U+FFFD"      \* what utf8.DecodeRune returns for no input

isDigit(r) == r \in {"0", "1", "2", "3", "4", "5", "6", "7", "8", "9"}
isLetter(r) ==
  r \in {"a", "b", "c", "d", "e", "f", "g", "h", "i", "j", "k", "l", "m",
         "n", "o", "p", "q", "r", "s", "t", "u", "v", "w", "x", "y", "z",
         "A", "B", "C", "D", "E", "F", "G", "H", "I", "J", "K", "L", "M",
         "N", "O", "P", "Q", "R", "S", "T", "U", "V", "W", "X", "Y", "Z"}
isOperator(r) == r \in {colon, equal, langle, rangle, tilde}

\* the filters: a nil Filter, and the values of the types compare,
\* relational, not, present and substring
NilFilter == [k |-> "nil"]
createCompareFilter(attr, value, tag) ==
  [k |-> "compare", left |-> attr, right |-> value, tag |-> tag]
Equal(attr, value) == createCompareFilter(attr, value, tagFilterEquality)
LessEq(attr, value) == createCompareFilter(attr, value, tagFilterLesserEq)
GreatEq(attr, value) == createCompareFilter(attr, value, tagFilterGreaterEq)
Approx(attr, value) == createCompareFilter(attr, value, tagFilterApprox)
And(filters) == [k |-> "relational", filters |-> filters, tag |-> tagFilterAnd]
Or(filters) == [k |-> "relational", filters |-> filters, tag |-> tagFilterOr]
Not(f) == [k |-> "not", inner |-> f]
Present(attr) == [k |-> "present", attr |-> attr]

\* Substring: the first value is the initial, the last one the final when it
\* is not empty and is not the only one left, the others are the any-list
Substring(attr, values) ==
  IF Len(values) = 0
  THEN [k |-> "substring", attr |-> attr, pre |-> <<>>, post |-> <<>>, any |-> <<>>]
  ELSE LET rest == Tail(values)
           n    == Len(values) - 2
           last == n > 0 /\ rest[n + 1] # <<>>
       IN [k |-> "substring", attr |-> attr,
           pre  |-> values[1],
           post |-> IF last THEN rest[n + 1] ELSE <<>>,
           any  |-> IF last THEN SubSeq(rest, 1, n) ELSE rest]

\* the method Not of a Filter: not.Not returns the inner filter, the method
\* of every other type returns Not(f)
FilterNot(f) == IF f.k = "not" THEN f.inner ELSE Not(f)

\* ------------------------------------------------------------------ scanner
scan(str) == [input |-> str, curr |-> 0, next |-> 0]

\* scanner.Next: the rune, whether there was one, and the scanner after it
scanNext(s) ==
  IF s.next >= Len(s.input)
  THEN [r |-> null, ok |-> FALSE, s |-> s]
  ELSE [r |-> s.input[s.next + 1], ok |-> TRUE,
        s |-> [s EXCEPT !.curr = s.next, !.next = s.next + 1]]

\* scanner.Back
Back(s) == IF s.curr = 0 THEN s ELSE [s EXCEPT !.next = s.curr, !.curr = s.curr - 1]

\* scanner.Peek
Peek(s) == IF s.next < Len(s.input) THEN s.input[s.next + 1] ELSE RuneError

\* scanner.Curr
Curr(s) == IF s.curr = 0 THEN null ELSE s.input[s.curr + 1]

\* the accept and delim functions handed to ScanUntil by parseAttr ("attr")
\* and by parseValue ("value")
accept(what, r) ==
  IF what = "attr" THEN isDigit(r) \/ isLetter(r) \/ r \in {".", "-"} ELSE TRUE
delim(what, r) ==
  IF what = "attr" THEN isOperator(r) ELSE r \in {star, rparen}

\* scanner.ScanUntil with buf filled so far: st is "ok", "err" (a rune that is
\* not accepted) or "hang" (at the end of the input Next returns the rune 0
\* for ever; when it is accepted the loop does not end)
RECURSIVE ScanUntil(_, _, _)
ScanUntil(s, what, buf) ==
  LET n == scanNext(s)
  IN IF delim(what, n.r) THEN [st |-> "ok", val |-> buf, s |-> n.s]
     ELSE IF ~accept(what, n.r) THEN [st |-> "err", val |-> <<>>, s |-> n.s]
     ELSE IF ~n.ok THEN [st |-> "hang", val |-> <<>>, s |-> n.s]
     ELSE ScanUntil(n.s, what, Append(buf, n.r))

\* ------------------------------------------------------------------- parser
Failed(st, s) == [st |-> st, f |-> NilFilter, s |-> s]
Parsed(f, s) == [st |-> "ok", f |-> f, s |-> s]

\* filterParser.parseAttribute after parseAttr: the operator; ty = -1 is an
\* error (invalidOperator, illegalCharacter)
parseAttribute(s) ==
  LET n == scanNext(s)
      m == scanNext(n.s)
  IN CASE n.r = langle ->
            [ty |-> IF m.r = equal THEN tagFilterLesserEq ELSE -1, s |-> m.s]
       [] n.r = rangle ->
            [ty |-> IF m.r = equal THEN tagFilterGreaterEq ELSE -1, s |-> m.s]
       [] n.r = tilde ->
            [ty |-> IF m.r = equal THEN tagFilterApprox ELSE -1, s |-> m.s]
       [] n.r = equal ->
            IF m.r = star /\ Peek(m.s) = rparen
            THEN [ty |-> tagFilterPresent, s |-> scanNext(m.s).s]
            ELSE [ty |-> tagFilterEquality, s |-> Back(m.s)]
       [] OTHER -> [ty |-> -1, s |-> n.s]

\* filterParser.parseValue, the loop: the values up to the closing parenthesis
RECURSIVE parseValues(_, _)
parseValues(s, values) ==
  LET v == ScanUntil(s, "value", <<>>)
  IN IF v.st # "ok" THEN [st |-> v.st, values |-> <<>>, s |-> v.s]
     ELSE IF Curr(v.s) = rparen
     THEN [st |-> "ok", values |-> Append(values, v.val), s |-> v.s]
     ELSE parseValues(v.s, Append(values, v.val))

\* filterParser.build
build(ty, name, values) ==
  CASE ty = tagFilterEquality -> Equal(name, values[1])
    [] ty = tagFilterSubstrings -> Substring(name, values)
    [] ty = tagFilterGreaterEq -> GreatEq(name, values[1])
    [] ty = tagFilterLesserEq -> LessEq(name, values[1])
    [] ty = tagFilterPresent -> Present(name)
    [] ty = tagFilterApprox -> Approx(name, values[1])

\* parseItem: filterParser.Parse with parseAttr, parseAttribute, parseValue
\* and build
parseItem(s) ==
  LET a == ScanUntil(s, "attr", <<>>)
  IN IF a.st # "ok" THEN Failed(a.st, a.s)
     ELSE LET op == parseAttribute(Back(a.s))
          IN IF op.ty = -1 THEN Failed("err", op.s)
             ELSE IF op.ty = tagFilterPresent THEN Parsed(build(op.ty, a.val, <<>>), op.s)
             ELSE LET v == parseValues(op.s, <<>>)
                      n == Len(v.values)
                  IN IF v.st # "ok" THEN Failed(v.st, v.s)
                     ELSE IF op.ty # tagFilterEquality /\ n > 1 THEN Failed("err", v.s)
                     ELSE IF op.ty = tagFilterEquality /\ n > 1
                          THEN Parsed(build(tagFilterSubstrings, a.val, v.values), v.s)
                     ELSE Parsed(build(op.ty, a.val, v.values), v.s)

\* parseFilter and parseList
RECURSIVE parseFilter(_)
RECURSIVE parseList(_, _)
parseFilter(s) ==
  LET n == scanNext(s)
      m == scanNext(n.s)
  IN IF ~n.ok THEN Failed("err", n.s)
     ELSE IF n.r # lparen THEN Failed("err", n.s)
     ELSE IF ~m.ok THEN Failed("err", m.s)
     ELSE CASE m.r = ampersand ->
                 LET l == parseList(m.s, <<>>)
                 IN IF l.st # "ok" THEN Failed(l.st, l.s) ELSE Parsed(And(l.all), l.s)
            [] m.r = pipe ->
                 LET l == parseList(m.s, <<>>)
                 IN IF l.st # "ok" THEN Failed(l.st, l.s) ELSE Parsed(Or(l.all), l.s)
            [] m.r = bang ->
                 LET i == parseFilter(m.s)
                 IN IF i.st # "ok" THEN i ELSE Parsed(Not(i.f), i.s)
            [] m.r = rparen -> Parsed(NilFilter, m.s)
            [] OTHER -> parseItem(Back(m.s))

parseList(s, all) ==
  LET f == parseFilter(s)
  IN IF f.st # "ok" THEN [st |-> f.st, all |-> <<>>, s |-> f.s]
     ELSE IF Peek(f.s) = rparen
     THEN [st |-> "ok", all |-> Append(all, f.f), s |-> scanNext(f.s).s]
     ELSE parseList(f.s, Append(all, f.f))

objectClass == <<"o", "b", "j", "e", "c", "t", "C", "l", "a", "s", "s">>

\* ParseFilter: the status and the filter
ParseFilter(str) ==
  IF str = <<>> THEN [st |-> "ok", f |-> Present(objectClass)]
  ELSE LET r == parseFilter(scan(str)) IN [st |-> r.st, f |-> r.f]

\* ------------------------------------------------------------------- String
RECURSIVE Join(_, _)
Join(strs, sep) ==
  IF strs = <<>> THEN <<>>
  ELSE IF Len(strs) = 1 THEN strs[1]
  ELSE strs[1] \o sep \o Join(Tail(strs), sep)

compareName(tag) ==
  CASE tag = tagFilterEquality -> <<"e", "q">>
    [] tag = tagFilterLesserEq -> <<"l", "e">>
    [] tag = tagFilterGreaterEq -> <<"g", "e">>
    [] tag = tagFilterApprox -> <<"a", "p", "p", "r", "o", "x">>
    [] OTHER -> <<"o", "t", "h", "e", "r">>

\* the method String of a Filter that holds no nil Filter: compare.String,
\* relational.String, not.String, present.String, substring.String
RECURSIVE String(_)
String(f) ==
  CASE f.k = "compare" ->
         compareName(f.tag) \o <<"(">> \o f.left \o <<":", " ">> \o f.right \o <<")">>
    [] f.k = "relational" ->
         (IF f.tag = tagFilterAnd THEN <<"a", "n", "d">> ELSE <<"o", "r">>)
           \o <<"(">>
           \o Join([i \in DOMAIN f.filters |-> String(f.filters[i])], <<",", " ">>)
           \o <<")">>
    [] f.k = "not" -> <<"n", "o", "t", "(">> \o String(f.inner) \o <<")">>
    [] f.k = "present" ->
         <<"p", "r", "e", "s", "e", "n", "t", "(">> \o f.attr \o <<")">>
    [] f.k = "substring" ->
         <<"s", "u", "b", "(">> \o f.attr
           \o <<",", " ", "p", "r", "e", ":", " ">> \o f.pre
           \o <<",", " ", "p", "o", "s", "t", ":", " ">> \o f.post
           \o <<",", " ", "a", "n", "y", ":", " ", "[">> \o Join(f.any, <<" ">>)
           \o <<"]", ")">>

\* a filter that holds no nil Filter
RECURSIVE NoNil(_)
NoNil(f) ==
  CASE f.k = "nil" -> FALSE
    [] f.k = "not" -> NoNil(f.inner)
    [] f.k = "relational" -> \A i \in DOMAIN f.filters : NoNil(f.filters[i])
    [] OTHER -> TRUE

\* ------------------------------------------------- the study of the filters
\* The filter strings of the study: an item (a=v) whose value v is made of
\* fragments joined by '*', an item with another operator, the empty
\* filter (), and these under negations, in a conjunction or a disjunction.
Frags == {<<>>, <<"x">>, <<"y">>}
Escaped == {<<backslash, star>>, <<"x", backslash, star, "y">>,
            <<backslash, rparen>>, <<backslash, lparen>>,
            <<backslash, backslash>>}
FragLists == UNION {[1..n -> Frags] : n \in 1..MaxFrags}
                \cup {<<e>> : e \in Escaped}
Item(op, frags) == [k |-> "item", op |-> op, frags |-> frags]
Items == {Item(<<equal>>, v) : v \in FragLists}
           \cup {Item(op, <<<<"x">>>>) : op \in {<<langle, equal>>, <<rangle, equal>>,
                                                <<tilde, equal>>}}
           \cup {[k |-> "empty"]}
FewItems == {Item(<<equal>>, <<<<"x">>>>), Item(<<equal>>, <<<<"x">>, <<"y">>>>),
             Item(<<equal>>, <<<<>>, <<>>>>), [k |-> "empty"]}
RECURSIVE Nested(_)
Nested(n) ==
  IF n = 0 THEN FewItems ELSE {[k |-> "not", x |-> x] : x \in Nested(n - 1)}
\* a filter string that lacks its last n characters, and a filter string
\* with more text after its closing parenthesis
MaxCut == 3
Whole == (FewItems \ {[k |-> "empty"]}) \cup {[k |-> "not", x |-> Item(<<equal>>, <<<<"x">>>>)]}
CutShapes == {[k |-> "cut", x |-> x, n |-> n] : x \in Whole, n \in 1..MaxCut}
Trailers == {<<lparen, "a", equal, "y", rparen>>, <<"x">>, <<rparen>>}
TrailShapes == {[k |-> "trail", x |-> x, rest |-> t] : x \in Whole, t \in Trailers}
FilterShapes ==
  Items \cup UNION {Nested(n) : n \in 1..MaxNest}
        \cup {[k |-> "list", rel |-> r, xs |-> <<x, y>>] :
                r \in {ampersand, pipe}, x \in FewItems \cup Nested(1), y \in FewItems}
        \cup CutShapes \cup TrailShapes

\* the filter string of a shape
RECURSIVE Render(_)
Render(x) ==
  CASE x.k = "item" -> <<lparen, "a">> \o x.op \o Join(x.frags, <<star>>) \o <<rparen>>
    [] x.k = "empty" -> <<lparen, rparen>>
    [] x.k = "not" -> <<lparen, bang>> \o Render(x.x) \o <<rparen>>
    [] x.k = "list" -> <<lparen, x.rel>> \o Render(x.xs[1]) \o Render(x.xs[2]) \o <<rparen>>
    [] x.k = "cut" -> SubSeq(Render(x.x), 1, Len(Render(x.x)) - x.n)
    [] x.k = "trail" -> Render(x.x) \o x.rest

NotCalled == [st |-> None]

InitFilter ==
  /\ Start("filter", Zero, <<>>, FALSE)
  /\ \E x \in FilterShapes : input = [fn |-> "ParseFilter", shape |-> x, str |-> Render(x)]
  /\ result = [fn |-> "ParseFilter", parsed |-> NotCalled, notnot |-> NotCalled,
               wrapped |-> NotCalled, string |-> NotCalled, again |-> NotCalled]

\* f, err := ParseFilter(str)
CallParseFilter ==
  /\ result.parsed = NotCalled
  /\ result' = [result EXCEPT !.parsed = ParseFilter(input.str)]
  /\ UNCHANGED <<msgid, binded, tx, conn, mu, net, wire, srvq, inbox, cut,
                 inflight, pc, cur, ncalls, nmsgs, scen, input>>

\* f.Not().Not() for the filter parsed
CallNotNot ==
  /\ result.parsed.st = "ok" /\ result.parsed.f # NilFilter
  /\ result.notnot = NotCalled
  /\ result' = [result EXCEPT
                  !.notnot = [st |-> "ok", f |-> FilterNot(FilterNot(result.parsed.f))]]
  /\ UNCHANGED <<msgid, binded, tx, conn, mu, net, wire, srvq, inbox, cut,
                 inflight, pc, cur, ncalls, nmsgs, scen, input>>

\* ParseFilter("(!(!" + str + "))") for a string that parses
CallParseWrapped ==
  /\ result.parsed.st = "ok"
  /\ result.wrapped = NotCalled
  /\ result' = [result EXCEPT
                  !.wrapped = ParseFilter(<<lparen, bang, lparen, bang>> \o input.str
                                            \o <<rparen, rparen>>)]
  /\ UNCHANGED <<msgid, binded, tx, conn, mu, net, wire, srvq, inbox, cut,
                 inflight, pc, cur, ncalls, nmsgs, scen, input>>

\* f.String() for the filter parsed
CallString ==
  /\ result.parsed.st = "ok" /\ NoNil(result.parsed.f)
  /\ result.string = NotCalled
  /\ result' = [result EXCEPT
                  !.string = [st |-> "ok", str |-> String(result.parsed.f)]]
  /\ UNCHANGED <<msgid, binded, tx, conn, mu, net, wire, srvq, inbox, cut,
                 inflight, pc, cur, ncalls, nmsgs, scen, input>>

\* ParseFilter(f.String())
CallParseAgain ==
  /\ result.string # NotCalled
  /\ result.again = NotCalled
  /\ result' = [result EXCEPT !.again = ParseFilter(result.string.str)]
  /\ UNCHANGED <<msgid, binded, tx, conn, mu, net, wire, srvq, inbox, cut,
                 inflight, pc, cur, ncalls, nmsgs, scen, input>>

NextFilter ==
  CallParseFilter \/ CallNotNot \/ CallParseWrapped \/ CallString \/ CallParseAgain

SpecFilter == InitFilter /\ [][NextFilter]_vars

\* ==================================================================== dn.go
MaxRdns == 2         \* RDNs of a DN
MaxAvas == 2         \* assertions of an RDN

comma == ","
plus  == "+"
minus == "-"
dot   == "."

acceptOID(r) == isDigit(r) \/ r = dot
acceptShortName(r) == isLetter(r) \/ r = minus

\* strings.Reader: the string and the number of runes read
NewReader(str) == [s |-> str, i |-> 0]
ReaderLen(rd) == Len(rd.s) - rd.i
ReadRune(rd) ==
  IF rd.i >= Len(rd.s) THEN [r |-> null, eof |-> TRUE, rd |-> rd]
  ELSE [r |-> rd.s[rd.i + 1], eof |-> FALSE, rd |-> [rd EXCEPT !.i = rd.i + 1]]
UnreadRune(rd) == [rd EXCEPT !.i = rd.i - 1]

\* readAttrType, the loop: the runes up to '=', each one accepted; kind is
\* "oid" or "short"
RECURSIVE readAttrTypeLoop(_, _, _)
readAttrTypeLoop(rd, kind, buf) ==
  LET n == ReadRune(rd)
  IN IF n.eof THEN [st |-> "eof", name |-> <<>>, rd |-> n.rd]
     ELSE IF n.r = equal THEN [st |-> "ok", name |-> buf, rd |-> n.rd]
     ELSE IF ~(IF kind = "oid" THEN acceptOID(n.r) ELSE acceptShortName(n.r))
     THEN [st |-> "err", name |-> <<>>, rd |-> n.rd]
     ELSE readAttrTypeLoop(n.rd, kind, Append(buf, n.r))

readAttrType(rd) ==
  LET n == ReadRune(rd)
  IN IF isDigit(n.r) THEN readAttrTypeLoop(UnreadRune(n.rd), "oid", <<>>)
     ELSE IF isLetter(n.r) THEN readAttrTypeLoop(UnreadRune(n.rd), "short", <<>>)
     ELSE [st |-> "err", name |-> <<>>, rd |-> n.rd]

\* readAttrValue: the runes up to ',' or '+' or the end; last is the
\* separator read, the rune 0 at the end
RECURSIVE readAttrValue(_, _)
readAttrValue(rd, buf) ==
  IF ReaderLen(rd) = 0 THEN [last |-> null, value |-> buf, rd |-> rd]
  ELSE LET n == ReadRune(rd)
       IN IF n.r = comma \/ n.r = plus
          THEN [last |-> n.r, value |-> buf, rd |-> n.rd]
          ELSE readAttrValue(n.rd, Append(buf, n.r))

\* explodeDN, the inner loop: the attributes of one RDN
RECURSIVE readRDN(_, _)
readRDN(rd, attrs) ==
  LET t == readAttrType(rd)
      v == readAttrValue(t.rd, <<>>)
      a == [Name |-> t.name, Values |-> <<v.value>>]
  IN IF t.st # "ok" THEN [st |-> t.st, attrs |-> attrs, rd |-> t.rd]
     ELSE IF v.last = null \/ v.last = comma
     THEN [st |-> "ok", attrs |-> Append(attrs, a), rd |-> v.rd]
     ELSE readRDN(v.rd, Append(attrs, a))

\* explodeDN: the status and the RDNs read
RECURSIVE explodeDN(_, _)
explodeDN(rd, parts) ==
  IF ReaderLen(rd) = 0 THEN [st |-> "ok", parts |-> parts]
  ELSE LET r == readRDN(rd, <<>>)
       IN IF r.st # "ok" THEN [st |-> r.st, parts |-> parts]
          ELSE explodeDN(r.rd, Append(parts, [attrs |-> r.attrs]))

Explode(dn) == explodeDN(NewReader(dn), <<>>)

\* RDN.String and DN.String
RDNString(r) ==
  Join([i \in DOMAIN r.attrs |-> r.attrs[i].Name \o <<equal>> \o r.attrs[i].Values[1]],
       <<plus>>)
DNString(parts) == Join([i \in DOMAIN parts |-> RDNString(parts[i])], <<comma>>)

\* --------------------------------------------------------- the study of DNs
\* The DN strings of the study: assertions type=value with a short name of
\* letters, a short name with a hyphen, a short name with a digit or a dotted
\* OID as type, and an empty value or a value without ',' and '+'.
LetterNames == {<<"c", "n">>, <<"c", "-", "n">>}
DigitNames  == {<<"o", "2">>}
OIDs        == {<<"1", ".", "2">>}
AvaTypes  == LetterNames \cup DigitNames \cup OIDs
AvaValues == {<<>>, <<"x", " ", "=">>}
Avas == {[type |-> t, value |-> v] : t \in AvaTypes, v \in AvaValues}
RdnShapes == UNION {[1..n -> Avas] : n \in 1..MaxAvas}
DnShapes == UNION {[1..n -> RdnShapes] : n \in 1..MaxRdns}

\* the DN string of a shape
RenderRdn(r) == Join([i \in DOMAIN r |-> r[i].type \o <<equal>> \o r[i].value], <<plus>>)
RenderDn(d) == Join([i \in DOMAIN d |-> RenderRdn(d[i])], <<comma>>)

InitDN ==
  /\ Start("dn", Zero, <<>>, FALSE)
  /\ \E d \in DnShapes : input = [fn |-> "Explode", shape |-> d, str |-> RenderDn(d)]
  /\ result = [fn |-> "Explode", dn |-> NotCalled, string |-> NotCalled]

\* dn, err := Explode(str)
CallExplode ==
  /\ result.dn = NotCalled
  /\ result' = [result EXCEPT !.dn = Explode(input.str)]
  /\ UNCHANGED <<msgid, binded, tx, conn, mu, net, wire, srvq, inbox, cut,
                 inflight, pc, cur, ncalls, nmsgs, scen, input>>

\* dn.String() for the DN that Explode returned
CallDNString ==
  /\ result.dn # NotCalled
  /\ result.string = NotCalled
  /\ result' = [result EXCEPT !.string = [st |-> "ok", str |-> DNString(result.dn.parts)]]
  /\ UNCHANGED <<msgid, binded, tx, conn, mu, net, wire, srvq, inbox, cut,
                 inflight, pc, cur, ncalls, nmsgs, scen, input>>

NextDN == CallExplode \/ CallDNString

SpecDN == InitDN /\ [][NextDN]_vars

\* ================================================ LDIF: ReadLDIF and Reader
MaxRecs  == 2        \* records of a stream
MaxTrail == 2        \* blank lines after the last record
MaxLines == 3        \* attribute lines of an add record
MaxBlocks == 2       \* modification blocks of a modify record
MaxVals  == 2        \* value lines of a modification block
MaxFolds == 3        \* lines of a folded value

sharp    == "#"
newline  == "\n"
carriage == "\r"
space    == " "

ModAdd     == 0
ModDelete  == 1
ModReplace == 2

ldifDN     == <<"d", "n">>
ldifChange == <<"c", "h", "a", "n", "g", "e", "t", "y", "p", "e">>
ldifAdd    == <<"a", "d", "d">>
ldifDel    == <<"d", "e", "l", "e", "t", "e">>
ldifMod    == <<"m", "o", "d", "i", "f", "y">>
ldifRep    == <<"r", "e", "p", "l", "a", "c", "e">>

\* the order of the bytes that the names of the study are made of, and the
\* order <= of two strings in Go
ByteOrder == <<"-", "0", "1", "2", "a", "b", "c", "d", "e", "n", "o">>
Ord(c) == CHOOSE i \in DOMAIN ByteOrder : ByteOrder[i] = c
RECURSIVE StrLE(_, _)
StrLE(s, t) ==
  IF s = <<>> THEN TRUE
  ELSE IF t = <<>> THEN FALSE
  ELSE IF Head(s) = Head(t) THEN StrLE(Tail(s), Tail(t))
  ELSE Ord(Head(s)) < Ord(Head(t))

\* strings.TrimSpace, strings.TrimSuffix
isSpace(c) == c \in {space, newline, carriage, "\t"}
RECURSIVE TrimLeft(_)
TrimLeft(s) == IF s # <<>> /\ isSpace(Head(s)) THEN TrimLeft(Tail(s)) ELSE s
RECURSIVE TrimRight(_)
TrimRight(s) ==
  IF s # <<>> /\ isSpace(s[Len(s)]) THEN TrimRight(SubSeq(s, 1, Len(s) - 1)) ELSE s
TrimSpace(s) == TrimRight(TrimLeft(s))
TrimSuffix(s, suffix) ==
  IF Len(s) >= Len(suffix) /\ SubSeq(s, Len(s) - Len(suffix) + 1, Len(s)) = suffix
  THEN SubSeq(s, 1, Len(s) - Len(suffix)) ELSE s

\* bufio.Reader: the stream and the number of bytes read
ReadByte(rs) ==
  IF rs.i >= Len(rs.s) THEN [b |-> null, eof |-> TRUE, rs |-> rs]
  ELSE [b |-> rs.s[rs.i + 1], eof |-> FALSE, rs |-> [rs EXCEPT !.i = rs.i + 1]]
UnreadByte(rs) == [rs EXCEPT !.i = rs.i - 1]
ReadString(rs, d) ==
  LET js == {j \in (rs.i + 1)..Len(rs.s) : rs.s[j] = d}
      j  == CHOOSE j \in js : \A k \in js : j <= k
  IN IF js = {}
     THEN [str |-> SubSeq(rs.s, rs.i + 1, Len(rs.s)), eof |-> TRUE,
           rs |-> [rs EXCEPT !.i = Len(rs.s)]]
     ELSE [str |-> SubSeq(rs.s, rs.i + 1, j), eof |-> FALSE, rs |-> [rs EXCEPT !.i = j]]

\* readLines: the line and the lines that continue it
RECURSIVE readMoreLines(_, _)
readMoreLines(rs, lines) ==
  LET n == ReadByte(rs)
      l == ReadString(n.rs, newline)
  IN IF n.eof THEN [lines |-> lines, rs |-> n.rs]
     ELSE IF n.b # space THEN [lines |-> lines, rs |-> UnreadByte(n.rs)]
     ELSE readMoreLines(l.rs, Append(lines, TrimSuffix(l.str, <<carriage, newline>>)))
readLines(rs) ==
  LET l == ReadString(rs, newline) IN readMoreLines(l.rs, <<TrimSpace(l.str)>>)

\* With(x, F) is F(x): the value x is computed once and named in F
With(x, F(_)) == F(x)

\* readValue; a value read from a URL is not in the study
readValue(rs) ==
  With(ReadByte(rs), LAMBDA n :
    IF n.eof THEN [st |-> "eof", value |-> <<>>, rs |-> n.rs]
    ELSE IF n.b = langle THEN [st |-> "err", value |-> <<>>, rs |-> n.rs]
    ELSE With(readLines(IF n.b = colon THEN n.rs ELSE UnreadByte(n.rs)), LAMBDA l :
           [st |-> "nil", value |-> Join(l.lines, <<>>), rs |-> l.rs]))

\* readDescriptor
readDescriptor(rs) ==
  With(ReadString(rs, colon), LAMBDA l :
    [st |-> IF l.eof THEN "err" ELSE "nil", name |-> TrimSuffix(l.str, <<colon>>),
     rs |-> l.rs])

\* readAttribute
readAttribute(rs) ==
  With(ReadByte(rs), LAMBDA n :
    IF n.eof THEN [st |-> "eof", name |-> <<>>, value |-> <<>>, rs |-> n.rs]
    ELSE IF n.b = minus
    THEN With(ReadString(n.rs, newline), LAMBDA l :
           [st |-> IF l.eof THEN "eof" ELSE "nil", name |-> <<>>, value |-> <<>>,
            rs |-> l.rs])
    ELSE With(readDescriptor(UnreadByte(n.rs)), LAMBDA d :
           IF d.st # "nil" THEN [st |-> d.st, name |-> <<>>, value |-> <<>>, rs |-> d.rs]
           ELSE With(readValue(d.rs), LAMBDA v :
                  IF v.st # "nil"
                  THEN [st |-> v.st, name |-> <<>>, value |-> <<>>, rs |-> v.rs]
                  ELSE [st |-> "nil", name |-> d.name, value |-> v.value, rs |-> v.rs])))

\* skipBlanks: b is the byte that readBlock read, in every round of the loop
RECURSIVE skipBlanks(_, _)
skipBlanks(b, rs) ==
  LET r == IF b = carriage THEN ReadByte(rs).rs ELSE rs
      n == ReadByte(r)
  IN IF n.eof THEN n.rs
     ELSE IF n.b # carriage /\ n.b # newline THEN UnreadByte(n.rs)
     ELSE skipBlanks(b, n.rs)

\* skipComments
RECURSIVE skipMoreComments(_)
skipMoreComments(rs) ==
  LET n == ReadByte(rs)
  IN IF n.eof THEN n.rs
     ELSE IF n.b # sharp THEN UnreadByte(n.rs)
     ELSE skipMoreComments(ReadString(n.rs, newline).rs)
skipComments(rs) == skipMoreComments(ReadString(rs, newline).rs)

\* createAttribute, createPartialWithValue, createPartial
createAttribute(name, value) ==
  [Mod |-> ModAdd, Name |-> name, Values |-> IF value # <<>> THEN <<value>> ELSE <<>>]
createPartialWithValue(name, value) == createAttribute(name, value)
createPartial(name) == createPartialWithValue(name, <<>>)

\* sort.Search(n, f) for f(i) = attrs[i].Name <= name, indices from 0
RECURSIVE Search(_, _, _, _)
Search(attrs, name, i, j) ==
  IF i >= j THEN i
  ELSE LET h == (i + j) \div 2
       IN IF ~StrLE(attrs[h + 1].Name, name) THEN Search(attrs, name, h + 1, j)
          ELSE Search(attrs, name, i, h)

\* the function that parseAdd hands to readBlock, for an attribute read
addAttribute(cg, name, value) ==
  LET n    == Len(cg.Attrs)
      x    == Search(cg.Attrs, name, 0, n)
      attr == createPartialWithValue(name, value)
  IN IF x < n /\ cg.Attrs[x + 1].Name = name
     THEN [cg EXCEPT !.Attrs[x + 1].Values = Append(@, value)]
     ELSE IF x < n
     THEN [cg EXCEPT !.Attrs = SubSeq(@, 1, x) \o <<attr>> \o SubSeq(@, x + 1, n)]
     ELSE [cg EXCEPT !.Attrs = Append(@, attr)]

\* parseDelete
parseDelete(rs) ==
  With(ReadByte(rs), LAMBDA n :
    IF n.eof THEN [st |-> "nil", rs |-> n.rs]
    ELSE IF n.b = carriage \/ n.b = newline
    THEN [st |-> "nil", rs |-> skipBlanks(n.b, n.rs)]
    ELSE [st |-> "err", rs |-> n.rs])

\* the operation of a modification block
modOf(name) ==
  CASE name = ldifAdd -> ModAdd
    [] name = ldifDel -> ModDelete
    [] name = ldifRep -> ModReplace
    [] OTHER -> -1

\* readBlock with the function exec that it is called with: "change" for
\* the function of ReadLDIF (acc is the list of the changes given to the
\* callback), "add" for the one of parseAdd (acc is the change), "modop" for
\* the one of parseModify (acc is the change), "modval" for the one of the
\* inner readBlock of parseModify (acc is the partial attribute). The status
\* is "nil", "eob" (end of block), "eof" or "err".
RECURSIVE readBlock(_, _, _)
RECURSIVE exec(_, _, _)
RECURSIVE parseChange(_)
readBlock(rs, kind, acc) ==
  With(ReadByte(rs), LAMBDA n :
    IF n.eof THEN [st |-> "nil", rs |-> n.rs, acc |-> acc]
    ELSE IF n.b = sharp THEN readBlock(skipComments(n.rs), kind, acc)
    ELSE IF n.b = carriage \/ n.b = newline
    THEN [st |-> "eob", rs |-> skipBlanks(n.b, n.rs), acc |-> acc]
    ELSE IF n.b = minus
    THEN With(ReadByte(n.rs), LAMBDA m :
           IF m.b = carriage \/ m.b = newline
           THEN [st |-> "eob", rs |-> ReadString(m.rs, newline).rs, acc |-> acc]
           ELSE [st |-> "err", rs |-> m.rs, acc |-> acc])
    ELSE With(exec(UnreadByte(n.rs), kind, acc), LAMBDA e :
           IF e.st \notin {"nil", "eob"} THEN e ELSE readBlock(e.rs, kind, e.acc)))

exec(rs, kind, acc) ==
  IF kind = "change"
  THEN With(parseChange(rs), LAMBDA c :
         IF c.st \notin {"nil", "eob"} THEN [st |-> c.st, rs |-> c.rs, acc |-> acc]
         ELSE [st |-> "nil", rs |-> c.rs,
               acc |-> Append(acc, [ct |-> c.ct, Name |-> c.cg.Name, Attrs |-> c.cg.Attrs])])
  ELSE With(readAttribute(rs), LAMBDA a :
         IF a.st # "nil" THEN [st |-> a.st, rs |-> a.rs, acc |-> acc]
         ELSE IF kind = "add"
         THEN [st |-> "nil", rs |-> a.rs, acc |-> addAttribute(acc, a.name, a.value)]
         ELSE IF kind = "modval"
         THEN IF a.name # acc.Name THEN [st |-> "err", rs |-> a.rs, acc |-> acc]
              ELSE [st |-> "nil", rs |-> a.rs,
                    acc |-> [acc EXCEPT !.Values = Append(@, a.value)]]
         ELSE IF modOf(a.name) = -1 THEN [st |-> "err", rs |-> a.rs, acc |-> acc]
         ELSE With(readBlock(a.rs, "modval",
                             [createPartial(a.value) EXCEPT !.Mod = modOf(a.name)]),
                   LAMBDA b :
                     IF b.st \in {"nil", "eob"}
                     THEN [st |-> b.st, rs |-> b.rs,
                           acc |-> [acc EXCEPT !.Attrs = Append(@, b.acc)]]
                     ELSE [st |-> b.st, rs |-> b.rs, acc |-> acc]))

\* parseChange, with parseAdd and parseModify
parseChange(rs) ==
  With(readAttribute(rs), LAMBDA dn :
    With([Name |-> dn.value, Attrs |-> <<>>], LAMBDA cg :
      IF dn.st # "nil" THEN [ct |-> 0, st |-> dn.st, rs |-> dn.rs, cg |-> cg]
      ELSE IF dn.name # ldifDN THEN [ct |-> 0, st |-> "err", rs |-> dn.rs, cg |-> cg]
      ELSE With(readAttribute(dn.rs), LAMBDA a :
             IF a.st # "nil" THEN [ct |-> 0, st |-> a.st, rs |-> a.rs, cg |-> cg]
             ELSE IF a.name # ldifChange
             THEN With(readBlock(a.rs, "add",
                                 [cg EXCEPT !.Attrs =
                                    <<createPartialWithValue(a.name, a.value)>>]),
                       LAMBDA r : [ct |-> ModAdd, st |-> r.st, rs |-> r.rs, cg |-> r.acc])
             ELSE IF a.value = ldifAdd
             THEN With(readBlock(a.rs, "add", cg),
                       LAMBDA r : [ct |-> ModAdd, st |-> r.st, rs |-> r.rs, cg |-> r.acc])
             ELSE IF a.value = ldifDel
             THEN With(parseDelete(a.rs),
                       LAMBDA r : [ct |-> ModDelete, st |-> r.st, rs |-> r.rs, cg |-> cg])
             ELSE IF a.value = ldifMod
             THEN With(readBlock(a.rs, "modop", cg),
                       LAMBDA r : [ct |-> ModReplace, st |-> r.st, rs |-> r.rs, cg |-> r.acc])
             ELSE [ct |-> 0, st |-> "err", rs |-> a.rs, cg |-> cg])))

\* ReadLDIF with a callback that keeps the changes: the error returned and
\* the changes that the callback was given
ReadLDIF(stream) ==
  LET r == readBlock([s |-> stream, i |-> 0], "change", <<>>)
  IN [st |-> r.st, changes |-> r.acc]

\* ------------------------------------------------------------------- Reader
ChangeAdd     == <<"a", "d", "d">>
ChangeDelete  == <<"d", "e", "l", "e", "t", "e">>
ChangeModify  == <<"m", "o", "d", "i", "f", "y">>
ChangeReplace == <<"r", "e", "p", "l", "a", "c", "e">>

modifyAdd == 0
modifyDel == 1
modifyRep == 2

\* the bufio.Scanner of NewReader over a file: what is left of the stream,
\* and done once the final token was given
NewScanner(stream) == [rest |-> stream, done |-> FALSE]

\* Scanner.Scan with the split function of NewReader: before the end of the
\* file the token is the text up to the first "\n\n", trimmed, and a token
\* that is nil after trimming is passed over; at the end of the file the
\* token is what is left, as it is
RECURSIVE Scan(_)
Scan(sc) ==
  LET ixs == {j \in 1..(Len(sc.rest) - 1) : sc.rest[j] = newline /\ sc.rest[j + 1] = newline}
      ix  == CHOOSE j \in ixs : \A k \in ixs : j <= k
      tok == TrimSpace(SubSeq(sc.rest, 1, ix - 1))
      nx  == [sc EXCEPT !.rest = SubSeq(sc.rest, ix + 2, Len(sc.rest))]
  IN IF sc.done THEN [ok |-> FALSE, token |-> <<>>, sc |-> sc]
     ELSE IF ixs = {}
     THEN [ok |-> TRUE, token |-> sc.rest, sc |-> [rest |-> <<>>, done |-> TRUE]]
     ELSE IF tok = <<>> THEN Scan(nx)
     ELSE [ok |-> TRUE, token |-> tok, sc |-> nx]

\* the lines that a bufio.Scanner gives for a text (bufio.ScanLines)
dropCR(l) == IF l # <<>> /\ l[Len(l)] = carriage THEN SubSeq(l, 1, Len(l) - 1) ELSE l
RECURSIVE ScanLines(_)
ScanLines(data) ==
  LET js == {j \in DOMAIN data : data[j] = newline}
      j  == CHOOSE j \in js : \A k \in js : j <= k
  IN IF data = <<>> THEN <<>>
     ELSE IF js = {} THEN <<dropCR(data)>>
     ELSE <<dropCR(SubSeq(data, 1, j - 1))>> \o ScanLines(SubSeq(data, j + 1, Len(data)))

\* Reader.Read, the loop over the lines of the token: the lines kept, or a
\* panic for x[0] of an empty line and for vs[-1]
RECURSIVE keepLines(_, _)
keepLines(lines, vs) ==
  IF lines = <<>> THEN [st |-> "nil", vs |-> vs]
  ELSE LET x == Head(lines)
       IN IF x = <<>> THEN [st |-> "panic", vs |-> vs]
          ELSE IF x[1] = sharp THEN keepLines(Tail(lines), vs)
          ELSE IF x[1] = space
          THEN IF vs = <<>> THEN [st |-> "panic", vs |-> vs]
               ELSE keepLines(Tail(lines), [vs EXCEPT ![Len(vs)] = @ \o TrimSpace(x)])
          ELSE keepLines(Tail(lines), Append(vs, x))

\* bufio.Reader.Peek
ReaderPeek(r, n) == SubSeq(r.s, r.i + 1, IF r.i + n <= Len(r.s) THEN r.i + n ELSE Len(r.s))

\* readLine
readLine(r) ==
  LET l   == ReadString(r, newline)
      ixs == {j \in DOMAIN l.str : l.str[j] = colon}
      ix  == CHOOSE j \in ixs : \A k \in ixs : j <= k
  IN IF ixs = {} THEN [st |-> "err", a |-> <<>>, v |-> <<>>, r |-> l.rs]
     ELSE [st |-> "nil", a |-> TrimSpace(SubSeq(l.str, 1, ix - 1)),
           v |-> TrimSpace(SubSeq(l.str, ix + 1, Len(l.str))), r |-> l.rs]

\* readAdd, the first loop: the attributes of the map, kept here in the
\* order in which their names were first read
RECURSIVE readAddMap(_, _)
readAddMap(r, as) ==
  LET l  == readLine(r)
      is == {i \in DOMAIN as : as[i].Name = l.a}
      i  == CHOOSE i \in is : TRUE
  IN IF l.st # "nil" THEN as
     ELSE IF is = {}
     THEN readAddMap(l.r, Append(as, [Op |-> modifyAdd, Name |-> l.a, Values |-> <<l.v>>]))
     ELSE readAddMap(l.r, [as EXCEPT ![i].Values = Append(@, l.v)])

\* the orders in which the range over a map can give its values
Orders(as) ==
  {[i \in DOMAIN as |-> as[p[i]]] :
     p \in {q \in [DOMAIN as -> DOMAIN as] : \A i, j \in DOMAIN as : q[i] = q[j] => i = j}}

\* readModify: the inner loop, the values of one attribute
RECURSIVE readModifyValues(_, _)
readModifyValues(r, attr) ==
  LET l == readLine(r)
  IN IF l.st # "nil" THEN [st |-> "nil", attr |-> attr, r |-> l.r]
     ELSE IF l.a # attr.Name THEN [st |-> "err", attr |-> attr, r |-> l.r]
     ELSE readModifyValues(l.r, [attr EXCEPT !.Values = Append(@, l.v)])

\* readModify
RECURSIVE readModify(_, _)
readModify(r, as) ==
  LET l  == readLine(r)
      op == CASE l.a = ChangeAdd -> modifyAdd
              [] l.a = ChangeDelete -> modifyDel
              [] l.a = ChangeReplace -> modifyRep
              [] OTHER -> -1
      b  == readModifyValues(l.r, [Op |-> op, Name |-> l.v, Values |-> <<>>])
  IN IF l.st # "nil" THEN [st |-> "nil", as |-> as]
     ELSE IF op = -1 THEN [st |-> "err", as |-> <<>>]
     ELSE IF b.st # "nil" THEN [st |-> "err", as |-> <<>>]
     ELSE readModify(b.r, Append(as, b.attr))

\* readChangeType
readChangeType(r) ==
  LET l == readLine(r)
  IN IF ReaderPeek(r, Len(ldifChange)) # ldifChange THEN [st |-> "nil", ct |-> ChangeAdd, r |-> r]
     ELSE IF l.st # "nil" THEN [st |-> "err", ct |-> <<>>, r |-> l.r]
     ELSE IF l.v \in {ChangeAdd, ChangeModify, ChangeDelete}
     THEN [st |-> "nil", ct |-> l.v, r |-> l.r]
     ELSE [st |-> "err", ct |-> <<>>, r |-> l.r]

\* readEntry with readDN: the changes that it can return, one for each order
\* of the range over the map of readAdd
readEntry(text) ==
  LET r0 == [s |-> text, i |-> 0]
      r1 == IF ReaderPeek(r0, 7) = <<"v", "e", "r", "s", "i", "o", "n">>
            THEN ReadString(r0, newline).rs ELSE r0
      dn == readLine(r1)
      ct == readChangeType(dn.r)
      c  == [ChangeType |-> ct.ct, Node |-> dn.v, Attrs |-> <<>>]
      mo == readModify(ct.r, <<>>)
  IN IF dn.st # "nil" \/ dn.a # ldifDN THEN {[st |-> "err"]}
     ELSE IF ct.st # "nil" THEN {[st |-> "err"]}
     ELSE IF ct.ct = ChangeAdd
     THEN {[st |-> "nil", c |-> [c EXCEPT !.Attrs = as]] : as \in Orders(readAddMap(ct.r, <<>>))}
     ELSE IF ct.ct = ChangeModify
     THEN IF mo.st # "nil" THEN {[st |-> "err"]}
          ELSE {[st |-> "nil", c |-> [c EXCEPT !.Attrs = mo.as]]}
     ELSE {[st |-> "nil", c |-> c]}

\* Reader.Read for the token scanned: the outcomes that it can have
Read(token) ==
  LET k == keepLines(ScanLines(token), <<>>)
  IN IF k.st = "panic" THEN {[st |-> "panic"]}
     ELSE IF k.vs = <<>> THEN {[st |-> "eof"]}
     ELSE readEntry(Join(k.vs, <<newline>>))

\* ------------------------------------------------ the study of LDIF streams
\* The streams of the study: add records with and without the changetype
\* line, modify records whose blocks end with a '-' line, delete records;
\* one record, or some records of a few with a blank line between two of
\* them and blank lines after the last one; lines that end with LF or with
\* CRLF.
RECURSIVE Concat(_)
Concat(strs) == IF strs = <<>> THEN <<>> ELSE Head(strs) \o Concat(Tail(strs))
LF   == <<newline>>
CRLF == <<carriage, newline>>
AttrLines == {[name |-> <<"a">>, value |-> <<"1">>], [name |-> <<"b">>, value |-> <<"2">>],
              [name |-> <<"a">>, value |-> <<"2">>]}
AddRecord(explicit, lines) ==
  [k |-> "add", node |-> <<"o", "=", "x">>, explicit |-> explicit, lines |-> lines]
AddRecords ==
  {AddRecord(e, l) : e \in BOOLEAN, l \in UNION {[1..n -> AttrLines] : n \in 1..MaxLines}}
ModBlocks ==
  {[op |-> o, attr |-> <<"a">>, vals |-> v] :
     o \in {ldifAdd, ldifDel, ldifRep},
     v \in UNION {[1..n -> {<<"1">>, <<"2">>}] : n \in 0..MaxVals}}
ModRecord(blocks) == [k |-> "modify", node |-> <<"o", "=", "x">>, blocks |-> blocks]
FewBlocks == {b \in ModBlocks : b.op # ldifDel /\ Len(b.vals) = 1 /\ b.vals[1] = <<"1">>}
ModRecords == {ModRecord(<<b>>) : b \in ModBlocks}
                \cup {ModRecord(b) : b \in UNION {[1..n -> FewBlocks] : n \in 2..MaxBlocks}}
DelRecord == [k |-> "delete", node |-> <<"o", "=", "x">>]
\* an add record of one attribute whose value is folded: the first line has
\* the first part of the value, each other part is on a line of its own
\* after one space
FoldParts == {<<"1">>, <<"2", "1">>}
FoldedRecords ==
  {[k |-> "add", node |-> <<"o", "=", "x">>, explicit |-> FALSE,
    lines |-> <<[name |-> <<"a">>, value |-> Concat(f)]>>, folds |-> f] :
     f \in UNION {[1..n -> FoldParts] : n \in 2..MaxFolds}}
FewRecords ==
  {AddRecord(FALSE, <<[name |-> <<"a">>, value |-> <<"1">>]>>),
   AddRecord(TRUE, <<[name |-> <<"b">>, value |-> <<"2">>]>>),
   ModRecord(<<[op |-> ldifRep, attr |-> <<"a">>, vals |-> <<<<"1">>>>]>>),
   DelRecord}
StreamShapes ==
  {[recs |-> <<r>>, nl |-> nl, trail |-> 0] :
     r \in AddRecords \cup ModRecords \cup FoldedRecords, nl \in {LF, CRLF}}
    \cup {[recs |-> rs, nl |-> nl, trail |-> t] :
            rs \in UNION {[1..n -> FewRecords] : n \in 1..MaxRecs},
            nl \in {LF, CRLF}, t \in 0..MaxTrail}

\* the text of a record and of a stream
RenderLine(name, value, nl) == name \o <<colon, space>> \o value \o nl
RenderBlock(b, nl) ==
  RenderLine(b.op, b.attr, nl)
    \o Concat([i \in DOMAIN b.vals |-> RenderLine(b.attr, b.vals[i], nl)])
    \o <<minus>> \o nl
RenderRecord(rec, nl) ==
  RenderLine(ldifDN, rec.node, nl) \o
    CASE rec.k = "add" ->
           (IF rec.explicit THEN RenderLine(ldifChange, ldifAdd, nl) ELSE <<>>)
             \o (IF "folds" \in DOMAIN rec
                 THEN RenderLine(rec.lines[1].name, rec.folds[1], nl)
                        \o Concat([i \in 1..(Len(rec.folds) - 1) |->
                                     <<space>> \o rec.folds[i + 1] \o nl])
                 ELSE Concat([i \in DOMAIN rec.lines |->
                                RenderLine(rec.lines[i].name, rec.lines[i].value, nl)]))
      [] rec.k = "modify" ->
           RenderLine(ldifChange, ldifMod, nl)
             \o Concat([i \in DOMAIN rec.blocks |-> RenderBlock(rec.blocks[i], nl)])
      [] rec.k = "delete" -> RenderLine(ldifChange, ldifDel, nl)
RenderStream(x) ==
  Join([i \in DOMAIN x.recs |-> RenderRecord(x.recs[i], x.nl)], x.nl)
    \o Concat([i \in 1..x.trail |-> x.nl])

InitLDIF ==
  /\ Start("ldif", Zero, <<>>, FALSE)
  /\ \E x \in StreamShapes :
       input = [fn |-> "ReadLDIF", shape |-> x, str |-> RenderStream(x)]
  /\ result = [fn |-> "ReadLDIF", ldif |-> NotCalled,
               reader |-> [st |-> "new", changes |-> <<>>]]

\* err := ReadLDIF(r, exec), with an exec that keeps the changes
CallReadLDIF ==
  /\ result.ldif = NotCalled
  /\ result' = [result EXCEPT !.ldif = ReadLDIF(input.str)]
  /\ UNCHANGED <<msgid, binded, tx, conn, mu, net, wire, srvq, inbox, cut,
                 inflight, pc, cur, ncalls, nmsgs, scen, input>>

\* r := NewReader(f)
CallNewReader ==
  /\ result.reader.st = "new"
  /\ result' = [result EXCEPT !.reader = [st |-> "open", sc |-> NewScanner(input.str),
                                          changes |-> <<>>]]
  /\ UNCHANGED <<msgid, binded, tx, conn, mu, net, wire, srvq, inbox, cut,
                 inflight, pc, cur, ncalls, nmsgs, scen, input>>

\* cs, err := r.Read(), in the loop of the commands that read as long as the
\* error is nil
CallRead ==
  /\ result.reader.st = "open"
  /\ LET t == Scan(result.reader.sc)
     IN IF ~t.ok
        THEN result' = [result EXCEPT !.reader.st = "eof", !.reader.sc = t.sc]
        ELSE \E o \in Read(t.token) :
               result' = [result EXCEPT
                            !.reader.sc = t.sc,
                            !.reader.st = IF o.st = "nil" THEN "open" ELSE o.st,
                            !.reader.changes = IF o.st = "nil" THEN Append(@, o.c) ELSE @]
  /\ UNCHANGED <<msgid, binded, tx, conn, mu, net, wire, srvq, inbox, cut,
                 inflight, pc, cur, ncalls, nmsgs, scen, input>>

NextLDIF == CallReadLDIF \/ CallNewReader \/ CallRead

SpecLDIF == InitLDIF /\ [][NextLDIF]_vars

\* ------------------------------------------------- cmd/ldap: execute
\* The execute command runs a batch of changes read from an LDIF stream,
\* optionally inside a transaction.  The batch is the sequence of the outcomes
\* of its records: "ok" and "fail" are changes the server accepts or refuses,
\* "syntax" is a record ReadLDIF cannot parse (its callback is not called).
MaxBatch == 3

ExecOutcomes == {"ok", "fail", "syntax"}
Batches == UNION {[1..n -> ExecOutcomes] : n \in 0..MaxBatch}

\* what the server answers to the Begin request: a failure, or a success whose
\* value is the transaction identifier (which may be empty)
BeginAnswers == {[st |-> "fail", id |-> <<>>], [st |-> "ok", id |-> <<>>],
                 [st |-> "ok", id |-> <<"t">>]}

InitExec ==
  /\ Start("exec", Zero, <<>>, FALSE)
  /\ \E t \in BOOLEAN, b \in {"ok", "fail"}, g \in BeginAnswers, e \in {"ok", "fail"},
        cs \in Batches :
       input = [fn |-> "runExec", tx |-> t, bind |-> b, begin |-> g, end |-> e,
                batch |-> cs]
  /\ result = [fn |-> "runExec", at |-> "bind", tx |-> <<>>, sent |-> <<>>,
               next |-> 1, err |-> "nil", ret |-> None]

\* if err := client.Bind(); err != nil { return err }; defer client.Unbind()
ExecBind ==
  /\ result.fn = "runExec" /\ result.at = "bind"
  /\ result' = [result EXCEPT
                  !.sent = Append(@, "Bind"),
                  !.ret = IF input.bind = "fail" THEN "err" ELSE @,
                  !.at = IF input.bind = "fail" THEN "done"
                         ELSE IF input.tx THEN "begin" ELSE "changes"]
  /\ UNCHANGED <<msgid, binded, tx, conn, mu, net, wire, srvq, inbox, cut,
                 inflight, pc, cur, ncalls, nmsgs, scen, input>>

\* if tx { err = client.Begin(); if err != nil { return err } }
\* Begin sends its request (the new Client has no transaction) and keeps the
\* value of a successful response as the transaction identifier.
ExecBegin ==
  /\ result.fn = "runExec" /\ result.at = "begin"
  /\ result' = [result EXCEPT
                  !.sent = Append(@, "Begin"),
                  !.tx = IF input.begin.st = "ok" THEN input.begin.id ELSE @,
                  !.err = IF input.begin.st = "ok" THEN "nil" ELSE "err",
                  !.at = IF input.begin.st = "ok" THEN "changes" ELSE "unbind"]
  /\ UNCHANGED <<msgid, binded, tx, conn, mu, net, wire, srvq, inbox, cut,
                 inflight, pc, cur, ncalls, nmsgs, scen, input>>

\* the step the batch is left with: the transaction's end when -t was given,
\* the deferred Unbind otherwise
AfterBatch == IF input.tx THEN "end" ELSE "unbind"

\* ExecFromReader: ReadLDIF calls the callback for each record in turn; the
\* callback sends the record's Add, Delete or Modify and returns its error;
\* ReadLDIF returns at the first error, of the callback or of its own parser.
ExecFromReader ==
  /\ result.fn = "runExec" /\ result.at = "changes"
  /\ IF result.next > Len(input.batch)
     THEN result' = [result EXCEPT !.err = "nil", !.at = AfterBatch]
     ELSE LET o == input.batch[result.next]
          IN result' = [result EXCEPT
                          !.sent = IF o = "syntax" THEN @ ELSE Append(@, "Change"),
                          !.next = IF o = "ok" THEN @ + 1 ELSE @,
                          !.err = IF o = "ok" THEN "nil" ELSE "err",
                          !.at = IF o = "ok" THEN @ ELSE AfterBatch]
  /\ UNCHANGED <<msgid, binded, tx, conn, mu, net, wire, srvq, inbox, cut,
                 inflight, pc, cur, ncalls, nmsgs, scen, input>>

\* if tx { if err == nil { err = client.Commit() } else { err = client.Rollback() } }
\* Commit and Rollback refuse without sending when the identifier is empty,
\* and forget the identifier when the End request succeeds.  Either way err is
\* assigned the error of the call, and the error of the batch is gone.
ExecEnd ==
  /\ result.fn = "runExec" /\ result.at = "end"
  /\ LET what == IF result.err = "nil" THEN "Commit" ELSE "Rollback"
     IN IF Len(result.tx) = 0
        THEN result' = [result EXCEPT !.err = "err", !.at = "unbind"]
        ELSE result' = [result EXCEPT
                          !.sent = Append(@, what),
                          !.tx = IF input.end = "ok" THEN <<>> ELSE @,
                          !.err = IF input.end = "ok" THEN "nil" ELSE "err",
                          !.at = "unbind"]
  /\ UNCHANGED <<msgid, binded, tx, conn, mu, net, wire, srvq, inbox, cut,
                 inflight, pc, cur, ncalls, nmsgs, scen, input>>

\* return err, then the deferred client.Unbind()
ExecReturn ==
  /\ result.fn = "runExec" /\ result.at = "unbind"
  /\ result' = [result EXCEPT !.sent = Append(@, "Unbind"), !.ret = result.err,
                              !.at = "done"]
  /\ UNCHANGED <<msgid, binded, tx, conn, mu, net, wire, srvq, inbox, cut,
                 inflight, pc, cur, ncalls, nmsgs, scen, input>>

NextExec == ExecBind \/ ExecBegin \/ ExecFromReader \/ ExecEnd \/ ExecReturn

SpecExec == InitExec /\ [][NextExec]_vars

\* ------------------------------------------------------------------ claims
Last(q) == q[Len(q)]
NotFailures == {0, 5, 6, 10, 14}

\* C1: the message IDs written to the transport are strictly increasing, and
\* the first one is 1 when every ID the counter has taken was written (the
\* counter then equals the number of IDs written).
C1_IdsIncreaseFromOne ==
  /\ (wire # <<>> /\ msgid = U32(0, Len(wire))) => wire[1] = One
  /\ \A i \in 2..Len(wire) : Less32(wire[i - 1], wire[i])

\* C2: the mutex is held from the moment a request that solicits a response
\* is written until its final response is decoded or an error ends the
\* exchange: every request in flight belongs to the caller that holds the
\* mutex and is reading.
C2_MutexHeldThroughExchange ==
  \A id \in inflight : mu # None /\ pc[mu] = "read" /\ cur[mu].id = id

\* C3: every operation other than Unbind and Abandon that wrote its request
\* has read one response from the transport when it returns (unless the read
\* itself failed).
AnsweredOps == {"Bind", "Add", "Modify", "Delete", "Rename", "Move", "Compare",
                "ModifyPassword", "Whoami", "StartTLS", "Begin", "Commit",
                "Rollback"}
C3_ReadsOneResponse ==
  \A p \in Callers :
    (Returned(p) /\ cur[p].op \in AnsweredOps /\ cur[p].wrote
       /\ cur[p].err.kind # "io") => cur[p].nread = 1

\* the entries of the searchResEntry messages of a stream, in order
RECURSIVE EntriesOf(_)
EntriesOf(q) ==
  IF q = <<>> THEN <<>>
  ELSE IF Head(q).tag = 4 THEN <<Head(q).entry>> \o EntriesOf(Tail(q))
  ELSE EntriesOf(Tail(q))

\* a stream of solicited searchResEntry and searchResRef messages followed by
\* a searchResDone with a non-failure result code
GoodStream(q) ==
  /\ q # <<>>
  /\ \A i \in 1..Len(q) : q[i].id # Zero
  /\ \A i \in 1..(Len(q) - 1) : q[i].tag \in {4, 19}
  /\ Last(q).tag = 5 /\ Last(q).code \in NotFailures

\* C4: a search whose stream is entries and referrals followed by a
\* successful done returns exactly the entries received, in arrival order,
\* however the stream was split across reads; entries and referrals are never
\* what makes the search stop as on an unexpected message.
C4_SearchReturnsEntries ==
  /\ \A p \in Callers :
       (Returned(p) /\ cur[p].op = "Search" /\ GoodStream(cur[p].seen)) =>
         (cur[p].err = NoErr /\ cur[p].entries = EntriesOf(cur[p].seen))
  /\ \A p \in Callers :
       (Returned(p) /\ cur[p].op = "Search" /\ cur[p].err.kind = "proto") =>
         Last(cur[p].seen).tag \notin {4, 19, 5}

C4_Witness ==
  \E p \in Callers :
    /\ Returned(p) /\ cur[p].op = "Search" /\ GoodStream(cur[p].seen)
    /\ Len(cur[p].entries) = 2 /\ cur[p].nread >= 2

\* a stream that holds a message that is no entry, referral or done, or a
\* done with a failure result code
BadStream(q) ==
  \E i \in 1..Len(q) :
    \/ q[i].tag \notin {4, 19, 5}
    \/ q[i].tag = 5 /\ q[i].code \notin NotFailures

\* C5: a search whose stream holds an unexpected message or a failed done
\* returns an error and no entries.
C5_SearchFailsWithoutEntries ==
  \A p \in Callers :
    (Returned(p) /\ cur[p].op = "Search" /\ BadStream(cur[p].seen)) =>
      (cur[p].err # NoErr /\ cur[p].entries = <<>>)

C5_Witness ==
  \E p \in Callers :
    /\ Returned(p) /\ cur[p].op = "Search" /\ BadStream(cur[p].seen)
    /\ Len(cur[p].seen) >= 2 /\ cur[p].seen[1].tag = 4 /\ cur[p].es # <<>>

\* C6: an operation that decoded a solicited response returns the result as
\* an error (code, matched DN, diagnostic message) exactly when the code is
\* outside {0, 5, 6, 10, 14}, and no error when it is in that set.
C6_ErrorIffFailureCode ==
  \A p \in Callers :
    (Returned(p) /\ cur[p].decoded) =>
      /\ cur[p].res.id # Zero
      /\ IF cur[p].res.code \in NotFailures
         THEN cur[p].err = NoErr
         ELSE cur[p].err = [kind |-> "result", code |-> cur[p].res.code,
                            dn |-> cur[p].res.dn, diag |-> cur[p].res.diag]

C6_Witness ==
  \E p \in Callers :
    /\ Returned(p) /\ cur[p].decoded /\ cur[p].op = "Add"
    /\ cur[p].res.code = 10 /\ cur[p].err = NoErr

\* C7: Compare returns false without error on code 5, true without error on
\* code 6 and an error on every other result code.
C7_CompareMapsCodes ==
  \A p \in Callers :
    (Returned(p) /\ cur[p].op = "Compare" /\ cur[p].decoded) =>
      /\ cur[p].res.code = 5 => (~cur[p].ok /\ cur[p].err = NoErr)
      /\ cur[p].res.code = 6 => (cur[p].ok /\ cur[p].err = NoErr)
      /\ cur[p].res.code \notin {5, 6} => cur[p].err # NoErr

\* C8: Bind on a Client that is already bound returns success at once, writes
\* nothing, takes no message ID and leaves the bound flag, the transaction
\* identifier and the transport unchanged.
C8_RebindIsNoOp ==
  [][\A p \in Callers :
       (pc[p] = "idle" /\ pc'[p] # "idle" /\ cur'[p].op = "Bind" /\ binded) =>
         /\ pc'[p] = "ret" /\ cur'[p].err = NoErr
         /\ msgid' = msgid /\ wire' = wire /\ binded' = binded
         /\ tx' = tx /\ conn' = conn /\ mu' = mu]_vars

C8_Witness ==
  \E p \in Callers :
    /\ Returned(p) /\ cur[p].op = "Bind" /\ cur[p].bound0
    /\ ~cur[p].wrote /\ cur[p].err = NoErr /\ wire # <<>>

\* C9 as stated: every Unbind sends an unbind request (unless the request
\* does not go out), reads no response and closes the transport.
C9_UnbindAlwaysSends ==
  \A p \in Callers :
    (Returned(p) /\ cur[p].op = "Unbind") =>
      /\ cur[p].wrote \/ cur[p].err.kind \in {"io", "encode"}
      /\ cur[p].nread = 0
      /\ conn.closed

\* C9 amended: Unbind on a bound Client sends an unbind request (application
\* tag 2, primitive, empty payload) unless encoding or writing it fails, reads
\* no response and closes the transport after the send on every path; on a
\* Client that is not bound it sends nothing and only closes the transport.
C9_UnbindSendsWhenBound ==
  /\ \A p \in Callers :
       (Returned(p) /\ cur[p].op = "Unbind") =>
         /\ conn.closed
         /\ cur[p].nread = 0
         /\ cur[p].bound0 =>
              IF cur[p].wrote
              THEN /\ cur[p].req.app = 2 /\ cur[p].req.form = "primitive"
                   /\ cur[p].req.payload = "empty" /\ cur[p].err = NoErr
              ELSE cur[p].err.kind \in {"io", "encode"}
         /\ ~cur[p].bound0 => (~cur[p].wrote /\ cur[p].err = NoErr)
  /\ \A p \in Callers :
       (cur[p].op = "Unbind" /\ cur[p].bound0) =>
         /\ pc[p] = "read" => FALSE
         /\ (pc[p] = "post" /\ cur[p].err.kind \notin {"io", "encode"}) => cur[p].wrote

C9_Witness ==
  \E p \in Callers :
    /\ Returned(p) /\ cur[p].op = "Unbind" /\ cur[p].bound0 /\ cur[p].wrote
    /\ conn.closed

\* C10: an operation that reads a response with message ID 0 named as the
\* notice of disconnection or as the aborted transaction returns the
\* unsolicited error.
C10_NoticeIsUnsolicitedError ==
  \A p \in Callers :
    (Returned(p) /\ cur[p].seen # <<>> /\ Last(cur[p].seen).id = Zero
       /\ Last(cur[p].seen).name \in {noticeDisconnect, noticeAbortedTx}) =>
      cur[p].err.kind = "unsolicited"

\* C11: an operation that reads a response with message ID 0 whose name is
\* neither the notice of disconnection nor the aborted transaction returns
\* the unsolicited error, whatever the result code of the response.
C11_OtherNoticeIsUnsolicited ==
  \A p \in Callers :
    (Returned(p) /\ cur[p].seen # <<>> /\ Last(cur[p].seen).id = Zero
       /\ Last(cur[p].seen).tag = ldapExtendedResponse
       /\ Last(cur[p].seen).name = otherNotice) =>
      cur[p].err.kind = "unsolicited"

\* the call of p returned a transport I/O error or the notice of disconnection
Broken(p) ==
  /\ Returned(p)
  /\ \/ cur[p].err.kind = "io"
     \/ cur[p].err.kind = "unsolicited" /\ cur[p].err.diag = "disconnection"

\* C12: once an operation has returned a transport I/O error or the notice of
\* disconnection, no further request is written to the transport and every
\* exchange that ends, ends with an error.
C12_BrokenConnectionIsClosed ==
  [][(\E p \in Callers : Broken(p)) =>
       /\ wire' = wire
       /\ \A q \in Callers :
            (pc[q] \in {"wait", "read"} /\ pc'[q] \in {"post", "ret"}) =>
              cur'[q].err # NoErr]_vars

Mutating == {"Add", "Modify", "Delete", "Rename", "Move"}
C15_EndClearsTransactionOnSuccess ==
  [][\A p \in Callers :
       (pc[p] # "ret" /\ pc'[p] = "ret" /\ cur'[p].op \in {"Commit", "Rollback"}) =>
         IF tx' = <<>> /\ tx # <<>>
         THEN /\ cur'[p].err = NoErr
              /\ cur'[p].decoded /\ cur'[p].res.code \in NotFailures
              /\ cur'[p].req.oid = "1.3.6.1.1.21.3"
              /\ cur'[p].res.id = cur'[p].id
         ELSE cur'[p].err # NoErr /\ tx' = tx]_vars

\* C16: after a Begin that returned without error the identifier of the
\* response is stored and a transaction is active (the identifier is not
\* empty, so that a further Begin is refused, Commit and Rollback are accepted
\* and mutating requests carry the control); after a Begin that returned an
\* error no transaction is active.
C16_BeginStartsTransaction ==
  \A p \in Callers :
    (Returned(p) /\ cur[p].op = "Begin") =>
      IF cur[p].err = NoErr
      THEN /\ tx = cur[p].res.value
           /\ Len(tx) > 0
           /\ Rejected("Begin", "ok") /\ ~Rejected("Commit", "ok")
           /\ ~Rejected("Rollback", "ok") /\ withTransaction(ldapAddRequest)
      ELSE Len(tx) = 0

\* x lies in [1, 2^31 - 1]
InIdRange(x) == x # Zero /\ x.hi < Limb \div 2

\* C17: every message ID written to the transport lies in [1, 2^31 - 1] and
\* was not written before.
C17_IdsStayInRange ==
  [][wire' # wire =>
       /\ InIdRange(Last(wire'))
       /\ \A i \in DOMAIN wire : wire[i] # Last(wire')]_vars

C19_ReadsUntilEnvelopeComplete ==
  [][\A p \in Callers :
       (/\ pc[p] = "read" /\ cur[p].op # "Search"
        /\ TransportOK /\ ~cut /\ inbox # <<>> /\ inbox[1].id = cur[p].id
        /\ pc'[p] # "read") =>
         /\ cur'[p].seen = <<inbox[1]>>
         /\ cur'[p].err.kind # "ber"]_vars

\* C20: Abandon writes one request with a message ID of its own and
\* application tag 16 and returns without reading a response.
C20_AbandonIsSent ==
  \A p \in Callers :
    (Returned(p) /\ cur[p].op = "Abandon") =>
      /\ cur[p].wrote /\ cur[p].id # Zero /\ Last(wire) = cur[p].id
      /\ cur[p].req.app = ldapAbandonRequest
      /\ cur[p].nread = 0

C22_NegationIsInvolution ==
  /\ result.fn = "ParseFilter" /\ result.notnot # NotCalled /\ NoNil(result.parsed.f) =>
       result.notnot.f = result.parsed.f
  /\ result.fn = "ParseFilter" /\ result.wrapped # NotCalled /\ NoNil(result.parsed.f) =>
       result.wrapped.st = "ok" /\ result.wrapped.f = result.parsed.f

\* C23: the String form of a parsed filter is the string parsed, or it
\* parses again, to the same tree
C23_StringParsesBack ==
  result.fn = "ParseFilter" /\ result.again # NotCalled =>
    \/ result.string.str = input.str
    \/ result.again.st = "ok" /\ result.again.f = result.parsed.f

\* the substring items (a=f0*f1*...*fn) with n >= 1 and a fragment that is
\* not empty
SubstringItem ==
  /\ input.fn = "ParseFilter" /\ input.shape.k = "item"
  /\ input.shape.op = <<equal>> /\ Len(input.shape.frags) >= 2
  /\ \E i \in DOMAIN input.shape.frags : input.shape.frags[i] # <<>>
  /\ \A i \in DOMAIN input.shape.frags : input.shape.frags[i] \in Frags

\* C24: a substring item parses to a substring filter with the first
\* fragment as initial, the last one as final, the others as the any-list
C24_SubstringFragments ==
  SubstringItem /\ result.parsed # NotCalled =>
    LET frags == input.shape.frags
        n     == Len(frags)
    IN /\ result.parsed.st = "ok"
       /\ result.parsed.f.k = "substring"
       /\ result.parsed.f.attr = <<"a">>
       /\ result.parsed.f.pre = frags[1]
       /\ result.parsed.f.post = frags[n]
       /\ result.parsed.f.any = SubSeq(frags, 2, n - 1)

\* a value without the backslashes that escape a character
RECURSIVE Unescape(_)
Unescape(v) ==
  IF v = <<>> THEN <<>>
  ELSE IF Head(v) = backslash /\ Len(v) >= 2 THEN <<v[2]>> \o Unescape(SubSeq(v, 3, Len(v)))
  ELSE <<Head(v)>> \o Unescape(Tail(v))

\* the items (a=v) whose value has an escaped character
EscapedItem ==
  /\ input.fn = "ParseFilter" /\ input.shape.k = "item"
  /\ input.shape.op = <<equal>> /\ Len(input.shape.frags) = 1
  /\ input.shape.frags[1] \in Escaped

\* C25: an item whose value has an escaped character parses to an equality
\* with the whole value, the escaped character in it
C25_EscapePassesThrough ==
  EscapedItem /\ result.parsed # NotCalled =>
    /\ result.parsed.st = "ok"
    /\ result.parsed.f.k = "compare"
    /\ result.parsed.f.right \in {input.shape.frags[1], Unescape(input.shape.frags[1])}

\* the invariants of a filter tree
RECURSIVE WellFormed(_)
WellFormed(f) ==
  CASE f.k = "nil" -> FALSE
    [] f.k = "not" -> WellFormed(f.inner)
    [] f.k = "relational" ->
         f.filters # <<>> /\ \A i \in DOMAIN f.filters : WellFormed(f.filters[i])
    [] f.k = "substring" ->
         f.pre # <<>> \/ f.post # <<>> \/ \E i \in DOMAIN f.any : f.any[i] # <<>>
    [] OTHER -> TRUE

\* C26: a filter that ParseFilter returns without an error satisfies the
\* invariants of a filter tree
C26_ParsedFilterIsWellFormed ==
  result.fn = "ParseFilter" /\ result.parsed # NotCalled /\ result.parsed.st = "ok" =>
    WellFormed(result.parsed.f)

\* C27: Explode succeeds on a DN string of assertions joined by ',' and '+',
\* with one RDN per part between commas and one assertion per part between
\* plus signs, and the String of the DN is the string exploded
C27_ExplodeIsStable ==
  result.fn = "Explode" /\ result.string # NotCalled =>
    /\ result.dn.st = "ok"
    /\ Len(result.dn.parts) = Len(input.shape)
    /\ \A i \in DOMAIN input.shape :
         i \in DOMAIN result.dn.parts =>
           Len(result.dn.parts[i].attrs) = Len(input.shape[i])
    /\ result.string.str = input.str

\* the attributes that the lines of an add record describe: one for each
\* name, in the order in which the names first occur, with the values of the
\* name in the order of the lines
RECURSIVE GroupLines(_, _)
GroupLines(lines, attrs) ==
  IF lines = <<>> THEN attrs
  ELSE LET l  == Head(lines)
           is == {i \in DOMAIN attrs : attrs[i].name = l.name}
           i  == CHOOSE i \in is : TRUE
       IN IF is = {}
          THEN GroupLines(Tail(lines),
                          Append(attrs, [op |-> 0, name |-> l.name, values |-> <<l.value>>]))
          ELSE GroupLines(Tail(lines), [attrs EXCEPT ![i].values = Append(@, l.value)])

\* the change that a record of a stream describes
ExpectedChange(rec) ==
  [k |-> rec.k, node |-> rec.node,
   attrs |-> CASE rec.k = "add" -> GroupLines(rec.lines, <<>>)
               [] rec.k = "modify" ->
                    [i \in DOMAIN rec.blocks |->
                       [op |-> modOf(rec.blocks[i].op), name |-> rec.blocks[i].attr,
                        values |-> rec.blocks[i].vals]]
               [] rec.k = "delete" -> <<>>]

\* a change that the callback of ReadLDIF was given, and a change that
\* Reader.Read returned, in the form of ExpectedChange
SeenByReadLDIF(c) ==
  LET k == CASE c.ct = ModAdd -> "add" [] c.ct = ModDelete -> "delete"
             [] c.ct = ModReplace -> "modify"
  IN [k |-> k, node |-> c.Name,
      attrs |-> [i \in DOMAIN c.Attrs |->
                   [op |-> IF k = "modify" THEN c.Attrs[i].Mod ELSE 0,
                    name |-> c.Attrs[i].Name, values |-> c.Attrs[i].Values]]]
SeenByReader(c) ==
  LET k == CASE c.ChangeType = ChangeAdd -> "add" [] c.ChangeType = ChangeDelete -> "delete"
             [] c.ChangeType = ChangeModify -> "modify"
  IN [k |-> k, node |-> c.Node,
      attrs |-> [i \in DOMAIN c.Attrs |->
                   [op |-> IF k = "modify" THEN c.Attrs[i].Op ELSE 0,
                    name |-> c.Attrs[i].Name, values |-> c.Attrs[i].Values]]]

\* C28: for a stream of N records with blank lines between them and after
\* the last one, ReadLDIF gives its callback N changes, of the kinds and for
\* the entries of the records in their order, and returns no error; the
\* Reader returns these N changes and then the end of the stream, and never
\* an error
C28_StreamGivesEveryRecord ==
  LET recs == input.shape.recs
  IN /\ result.fn = "ReadLDIF" /\ result.ldif # NotCalled =>
          /\ result.ldif.st = "nil"
          /\ Len(result.ldif.changes) = Len(recs)
          /\ \A i \in DOMAIN recs :
               /\ SeenByReadLDIF(result.ldif.changes[i]).k = recs[i].k
               /\ SeenByReadLDIF(result.ldif.changes[i]).node = recs[i].node
     /\ result.fn = "ReadLDIF" =>
          /\ result.reader.st \in {"new", "open", "eof"}
          /\ Len(result.reader.changes) <= Len(recs)
          /\ result.reader.st = "eof" => Len(result.reader.changes) = Len(recs)
          /\ \A i \in DOMAIN result.reader.changes :
               /\ SeenByReader(result.reader.changes[i]).k = recs[i].k
               /\ SeenByReader(result.reader.changes[i]).node = recs[i].node

\* a stream of one record of the kind k, with nothing after the record and
\* no folded value
OneRecord(k) ==
  /\ input.fn = "ReadLDIF" /\ Len(input.shape.recs) = 1 /\ input.shape.recs[1].k = k
  /\ input.shape.trail = 0 /\ "folds" \notin DOMAIN input.shape.recs[1]

\* C29: for an add record the change has one attribute for each name, in the
\* order in which the names first occur, each with the values of its name in
\* the order of the lines
C29_AddMergesInOrder ==
  OneRecord("add") =>
    /\ result.ldif # NotCalled =>
         /\ Len(result.ldif.changes) = 1
         /\ SeenByReadLDIF(result.ldif.changes[1]) = ExpectedChange(input.shape.recs[1])
    /\ result.reader.changes # <<>> =>
         SeenByReader(result.reader.changes[1]) = ExpectedChange(input.shape.recs[1])

\* C30: for a modify record of K blocks that end with a '-' line the change
\* has K partial attributes with the operation, the name and the values of
\* the blocks in their order, with LF and with CRLF at the end of the lines
C30_ModifyKeepsEveryBlock ==
  OneRecord("modify") =>
    /\ result.ldif # NotCalled =>
         /\ result.ldif.st = "nil"
         /\ Len(result.ldif.changes) = 1
         /\ SeenByReadLDIF(result.ldif.changes[1]) = ExpectedChange(input.shape.recs[1])
    /\ result.reader.st \in {"new", "open", "eof"}
    /\ result.reader.st = "eof" => Len(result.reader.changes) = 1
    /\ result.reader.changes # <<>> =>
         SeenByReader(result.reader.changes[1]) = ExpectedChange(input.shape.recs[1])

\* a stream of one add record whose value is folded
FoldedRecord ==
  /\ input.fn = "ReadLDIF" /\ Len(input.shape.recs) = 1
  /\ "folds" \in DOMAIN input.shape.recs[1]

\* C31: the value of an attribute folded over continuation lines is the first
\* part followed by the text of each continuation line without its space and
\* without the end of the line, and no newline is in it, with LF and with CRLF
C31_FoldedValueIsJoined ==
  FoldedRecord =>
    /\ result.ldif # NotCalled =>
         /\ result.ldif.st = "nil"
         /\ Len(result.ldif.changes) = 1
         /\ SeenByReadLDIF(result.ldif.changes[1]) = ExpectedChange(input.shape.recs[1])
    /\ result.reader.st \in {"new", "open", "eof"}
    /\ result.reader.changes # <<>> =>
         SeenByReader(result.reader.changes[1]) = ExpectedChange(input.shape.recs[1])

\* the positions of a request in what the command has sent
Positions(what) == {i \in 1..Len(result.sent) : result.sent[i] = what}
\* the first record of the batch that is not accepted, 0 when all are
FirstBad == IF \E i \in 1..Len(input.batch) : input.batch[i] # "ok"
            THEN CHOOSE i \in 1..Len(input.batch) :
                   /\ input.batch[i] # "ok"
                   /\ \A j \in 1..(i - 1) : input.batch[j] = "ok"
            ELSE 0
\* the batch runs in a transaction the server has opened with an identifier
InTransaction ==
  /\ result.fn = "runExec" /\ input.tx
  /\ input.bind = "ok" /\ input.begin.st = "ok" /\ Len(input.begin.id) > 0
ChangeFailed == FirstBad > 0 /\ input.batch[FirstBad] = "fail"

\* C32: with -t, in a transaction the server has opened, Begin is sent before
\* any change; when a change fails no further change is sent, a Rollback and
\* never a Commit is sent, and the command returns the failure; when every
\* change succeeds a Commit and never a Rollback is sent; exactly one
\* End-Transaction request is sent per batch.
C32_BatchIsAllOrNothing ==
  InTransaction =>
    /\ \A i \in Positions("Change") : \E j \in Positions("Begin") : j < i
    /\ ChangeFailed =>
         /\ Cardinality(Positions("Change")) <= FirstBad
         /\ Positions("Commit") = {}
    /\ FirstBad = 0 => Positions("Rollback") = {}
    /\ result.at = "done" =>
         /\ Cardinality(Positions("Commit") \cup Positions("Rollback")) = 1
         /\ ChangeFailed => Positions("Rollback") # {} /\ result.ret = "err"
         /\ FirstBad = 0 => Positions("Commit") # {}

\* a conjunction or disjunction whose elements all parse on their own
ListOfFilters ==
  /\ result.fn = "ParseFilter" /\ input.shape.k = "list"
  /\ \A i \in DOMAIN input.shape.xs : ParseFilter(Render(input.shape.xs[i])).st = "ok"

\* C33: parsing (&f1..fn) or (|f1..fn) gives a filter with exactly n children,
\* in order, each the filter its own string parses to; this holds for
\* not-filters that are not the last element too.
C33_ListKeepsEveryChild ==
  (ListOfFilters /\ result.parsed # NotCalled) =>
    /\ result.parsed.st = "ok"
    /\ result.parsed.f.k = "relational"
    /\ Len(result.parsed.f.filters) = Len(input.shape.xs)
    /\ \A i \in DOMAIN input.shape.xs :
         result.parsed.f.filters[i] = ParseFilter(Render(input.shape.xs[i])).f

\* C34: every envelope a call has decoded its result from carries the message
\* ID of the call's request, or 0; a response to an earlier request is never
\* taken as the answer.
C34_AnswerCarriesRequestId ==
  \A p \in Callers :
    Returned(p) =>
      \A i \in DOMAIN cur[p].seen : cur[p].seen[i].id \in {cur[p].id, Zero}

\* the call of p is under way: made, and not yet returned
UnderWay(p) == pc[p] \in {"wait", "read", "post"}
\* both callers have a call of op under way and both have written its request
BothSent(op) ==
  \A p \in Callers : UnderWay(p) /\ cur[p].op = op /\ cur[p].wrote

\* C35: the bound flag, the transaction identifier and the transport are
\* looked at and changed under the mutex only: of two calls of Begin under way
\* at the same time at most one sends a request, the same for two calls of
\* Bind, and the transport is not closed while a caller is in its exchange.
C35_GuardsAreUnderTheMutex ==
  /\ ~BothSent("Begin")
  /\ ~BothSent("Bind")
  /\ \A p \in Callers : pc[p] = "read" => ~conn.closed

\* C36: the bound flag is set only by a Bind whose exchange decoded a response
\* with result code 0; a Bind answered with code 5, 6, 10 or 14, and a Bind
\* whose exchange failed, leave the Client unbound.
C36_BoundOnlyOnSuccess ==
  [][(~binded /\ binded') =>
       \E p \in Callers :
         /\ pc[p] = "post" /\ pc'[p] = "ret" /\ cur[p].op = "Bind"
         /\ cur[p].decoded /\ cur[p].res.code = Success]_vars

\* C37: Closed is terminal: a call that returns on a Client whose transport
\* Unbind has closed returns an error.
C37_ClosedIsTerminal ==
  [][\A p \in Callers :
       (conn.closed /\ pc[p] # "ret" /\ pc'[p] = "ret") => cur'[p].err # NoErr]_vars

\* the call is one the operation settles before it takes the mutex
SettledLocally(op, in) ==
  \/ op = "StartTLS" /\ conn.tls
  \/ op = "Begin" /\ Len(tx) > 0
  \/ op \in {"Commit", "Rollback"} /\ Len(tx) = 0
  \/ op = "Move" /\ in = "dnerr"

\* C38: StartTLS on a TLS transport, Begin while a transaction is active,
\* Commit and Rollback with no transaction, and Move with a DN that Explode
\* rejects return at once, write nothing, take no message ID and leave the
\* bound flag, the transaction identifier and the transport unchanged;
\* StartTLS returns success and the others an error.
C38_LocalCallsChangeNothing ==
  [][\A p \in Callers :
       (pc[p] = "idle" /\ pc'[p] # "idle"
          /\ SettledLocally(cur'[p].op, cur'[p].input)) =>
         /\ pc'[p] = "ret" /\ ~cur'[p].wrote
         /\ (cur'[p].err = NoErr) <=> (cur'[p].op = "StartTLS")
         /\ msgid' = msgid /\ wire' = wire /\ binded' = binded
         /\ tx' = tx /\ conn' = conn /\ mu' = mu]_vars

C38_Witness ==
  \E p \in Callers :
    /\ Returned(p) /\ cur[p].op = "Begin" /\ Len(tx) > 0
    /\ ~cur[p].wrote /\ cur[p].err = Err("local") /\ wire # <<>>

\* C39: ParseFilter returns, with a filter or with an error, on every input,
\* also on one that ends before its closing parenthesis such as "(a=x".
C39_ParseFilterTerminates ==
  (result.fn = "ParseFilter" /\ result.parsed # NotCalled) =>
    result.parsed.st \in {"ok", "err"}

\* C40: ParseFilter accepts a string only when the whole of it is one filter:
\* a filter followed by more text is a syntax error.
C40_TrailingTextIsRejected ==
  (result.fn = "ParseFilter" /\ input.shape.k = "trail"
     /\ result.parsed # NotCalled) =>
    result.parsed.st = "err"

====
